---- MODULE Spec2Model ----
(***************************************************************************)
(* Model of the portfolio bias pipeline: the dispatcher (bias-router.py)   *)
(* fans one enriched portfolio out to five dimension handlers              *)
(* (bias-analysis/*.py) through asynchronous Lambda invocations, each      *)
(* handler writes one result object to the results bucket, and the         *)
(* combiner (result-compiler.py) merges the five objects.                  *)
(*                                                                         *)
(* Python strings are TLA+ strings; None is the empty tuple <<>> and a     *)
(* present value v is <<v>>.  Percentages are integers; beta, Sharpe and   *)
(* returns are integers in hundredths.  The wall-clock 'timestamp' field   *)
(* and the generated commentary text of the result documents are constant  *)
(* in the model.                                                           *)
(***************************************************************************)
EXTENDS Integers, Sequences, FiniteSets, TLC

VARIABLES
    events,     \* the S3 notifications delivered to the dispatcher (source keys)
    s3,         \* the results bucket: key -> stored document
    pending,    \* asynchronous invocations accepted by Lambda, not yet run
    dpc,        \* dispatcher position, per notification
    dresp,      \* dispatcher response status, per notification (0: none yet)
    attempts,   \* per notification: functions whose invocation was attempted
    tresp,      \* responses of the finished dimension handlers
    cpc,        \* combiner position, per identifier
    clocal,     \* combiner locals, per identifier
    cout,       \* combiner outcome, per identifier
    puts,       \* number of successful put_object calls, per key
    access,     \* storage calls made so far: who, which call, which key
    faults,     \* infrastructure failures injected so far
    call,       \* a function of the handlers called on its own: name, arguments
    retval,     \* what that call returned (None: not returned yet)
    fetch       \* the locals of a call that fetches with retries

vars == <<events, s3, pending, dpc, dresp, attempts, tresp, cpc, clocal,
          cout, puts, access, faults, call, retval, fetch>>

\* The variables of a call of one function.
calc == <<call, retval, fetch>>

\* Largest number of infrastructure failures (storage, commentary service,
\* Lambda invocation) in one run.
MaxFaults == 2

\* Largest number of holdings passed to a function or sent to a handler by a
\* caller other than the dispatcher.
MaxHoldings == 2

\* The lists of up to n holdings drawn from a set.
HoldingLists(S, n) == UNION {[1..k -> S] : k \in 0..n}

-----------------------------------------------------------------------------
(* Python values *)

None == <<>>

Some(v) == <<v>>

\* Python's `x or 0` for an optional number.
OrZero(o) == IF o = None THEN 0 ELSE o[1]

\* Truth value of an optional string: None and "" are falsy.
Truthy(o) == o # None /\ o[1] # ""

\* dict.get(name) on a holding of a reduced view
Field(holding, name) ==
    IF name \in DOMAIN holding THEN holding[name] ELSE None

\* dict.get(name, default): the default only for a key that is absent
GetOr(holding, name, default) ==
    IF name \in DOMAIN holding THEN holding[name] ELSE default

\* name = value, then body(name): Python evaluates the value once.
Bind(value, Body(_)) == CHOOSE r \in {Body(name) : name \in {value}} : TRUE

RECURSIVE SumSeq(_)
SumSeq(s) == IF s = <<>> THEN 0 ELSE Head(s) + SumSeq(Tail(s))

MapSeq(s, F(_)) == Bind(s, LAMBDA seq : [i \in 1..Len(seq) |-> F(seq[i])])

\* str.startswith
StartsWith(s, p) == Len(s) >= Len(p) /\ SubSeq(s, 1, Len(p)) = p

\* str.strip for the blanks at both ends
Strip(str) ==
    Bind(str, LAMBDA s :
        Bind({i \in 1..Len(s) : SubSeq(s, i, i) # " "}, LAMBDA inked :
            IF inked = {} THEN ""
            ELSE SubSeq(s, CHOOSE i \in inked : \A j \in inked : i <= j,
                           CHOOSE i \in inked : \A j \in inked : i >= j)))

\* str.replace(old, new): every non-overlapping occurrence, left to right.
RECURSIVE ReplaceFrom(_, _, _, _)
ReplaceFrom(s, old, new, i) ==
    IF i + Len(old) - 1 > Len(s) THEN SubSeq(s, i, Len(s))
    ELSE IF SubSeq(s, i, i + Len(old) - 1) = old
         THEN new \o ReplaceFrom(s, old, new, i + Len(old))
         ELSE SubSeq(s, i, i) \o ReplaceFrom(s, old, new, i + 1)

Replace(s, old, new) == Bind(s, LAMBDA str : ReplaceFrom(str, old, new, 1))

\* str.split(sep) for a one-character separator.
RECURSIVE SplitFrom(_, _, _, _)
SplitFrom(s, sep, i, cur) ==
    IF i > Len(s) THEN <<cur>>
    ELSE IF SubSeq(s, i, i) = sep
         THEN <<cur>> \o SplitFrom(s, sep, i + 1, "")
         ELSE SplitFrom(s, sep, i + 1, cur \o SubSeq(s, i, i))

Split(s, sep) == SplitFrom(s, sep, 1, "")

\* urllib.parse.unquote_plus on keys without percent escapes.
unquote_plus(s) == Replace(s, "+", " ")

\* dict[key] = value on a dict kept as a sequence of <<key, value>> pairs:
\* an existing key keeps its position, a new key goes last.
DictSet(d, k, v) ==
    IF \E i \in 1..Len(d) : d[i][1] = k
    THEN [i \in 1..Len(d) |-> IF d[i][1] = k THEN <<k, v>> ELSE d[i]]
    ELSE Append(d, <<k, v>>)

DictKeys(d) == {d[i][1] : i \in 1..Len(d)}

\* dict.get(key, 0) on a dict kept as a sequence of pairs
DictGet(d, k) ==
    IF k \in DictKeys(d) THEN d[CHOOSE i \in 1..Len(d) : d[i][1] = k][2] ELSE 0

\* s3.put_object on the bucket
PutObject(store, key, body) ==
    [k \in DOMAIN store \cup {key} |-> IF k = key THEN body ELSE store[k]]

\* s3.list_objects_v2(Prefix=prefix): the keys of the bucket under the prefix
ListObjects(store, prefix) == {k \in DOMAIN store : StartsWith(k, prefix)}

Bump(count, key) ==
    [k \in DOMAIN count \cup {key} |->
        IF k = key THEN (IF key \in DOMAIN count THEN count[key] ELSE 0) + 1
        ELSE count[k]]

-----------------------------------------------------------------------------
(* The enriched portfolios in the upload bucket *)

Holding(symbol, pct, asset_type, sector, hq, ret, beta, sharpe, cap, gain, value) ==
    [symbol |-> symbol, portfolio_percentage |-> Some(pct), beta |-> beta,
     market_cap |-> cap, total_gain_percent |-> gain, value |-> value,
     analysis |-> [asset_type |-> asset_type, sector |-> sector,
                   sharpe_ratio |-> sharpe, trailing_return_1m |-> ret,
                   hq_location |-> hq]]

Location(country, city, state) ==
    [country |-> country, city |-> city, state |-> state]

Uploads ==
    [k \in {"in/a/p.json", "in/ab/p.json", "in/etf/p.json", "in/new/p.json"} |->
        CASE k = "in/a/p.json" ->
               [holdings |-> <<
                  Holding("AAPL", 50, Some("STOCK"), Some("Information Technology"),
                          Location(Some("United States"), Some("Cupertino"), Some("CA")),
                          Some(400), Some(120), Some(150), Some("3T"), Some(25), Some(5000)),
                  Holding("SPY", 30, Some("ETF"), None,
                          Location(None, None, None),
                          Some(200), Some(100), Some(100), None, Some(10), Some(3000)),
                  Holding("XOM", 20, Some("STOCK"), Some("Energy"),
                          Location(Some("United States"), None, None),
                          Some(-300), Some(80), None, Some("450B"), Some(5), Some(2000)) >>]
          [] k = "in/ab/p.json" ->
               [holdings |-> <<
                  Holding("SAP", 100, None, None,
                          Location(Some("Germany"), Some("Walldorf"), None),
                          None, None, None, Some("250B"), Some(7), Some(100)) >>]
          [] k = "in/new/p.json" ->
               [holdings |-> <<
                  Holding("IBM", 60, Some("STOCK"), Some("Information Technology"),
                          Location(Some("United States"), Some("Armonk"), Some("NY")),
                          Some(100), Some(90), Some(80), Some("150B"), Some(12), Some(600)),
                  Holding("NEW", 40, Some("STOCK"), None,
                          Location(None, None, None),
                          None, None, None, None, None, Some(400)) >>]
          [] OTHER ->
               [holdings |-> <<
                  Holding("VTI", 100, Some("ETF"), None,
                          Location(None, None, None),
                          Some(100), Some(100), Some(90), None, Some(3), Some(700)) >>]]

\* The notifications a run starts from: one submission, a portfolio of ETFs
\* only, a malformed key.
Scenarios == { {"in/a/p.json"}, {"in/etf/p.json"}, {"in/bad.json"} }

\* Two submissions in flight at once.
Concurrent == {"in/a/p.json", "in/ab/p.json"}

SourceKeys == UNION Scenarios \cup Concurrent

-----------------------------------------------------------------------------
(* bias-router.py: the reduced views *)

\* analysis.get('asset_type') == 'ETF' skips the holding
NotETF(holding) == Field(holding.analysis, "asset_type") # Some("ETF")

\* holding.get('portfolio_percentage', 0): the weight of a holding, None for
\* a key holding null
Percentage(holding) == GetOr(holding, "portfolio_percentage", Some(0))

VolatilityView(holding) ==
    [symbol |-> holding.symbol,
     portfolio_percentage |-> Percentage(holding),
     beta |-> holding.beta,
     sharpe |-> Field(holding.analysis, "sharpe_ratio"),
     asset_type |-> Field(holding.analysis, "asset_type")]

prepare_volatility_data(portfolio_data) ==
    [holdings |-> MapSeq(portfolio_data.holdings, VolatilityView)]

SectorView(holding) ==
    [symbol |-> holding.symbol,
     portfolio_percentage |-> Percentage(holding),
     sector |-> Field(holding.analysis, "sector")]

prepare_sector_data(portfolio_data) ==
    [holdings |-> MapSeq(SelectSeq(portfolio_data.holdings, NotETF), SectorView)]

SizeView(holding) ==
    [symbol |-> holding.symbol,
     market_cap |-> holding.market_cap,
     total_gain_percent |-> holding.total_gain_percent,
     value |-> holding.value]

\* A size view without the ETF holdings.
prepare_size_data_filtered(portfolio_data) ==
    [holdings |-> MapSeq(SelectSeq(portfolio_data.holdings, NotETF), SizeView)]

prepare_size_data(portfolio_data) ==
    [holdings |-> MapSeq(portfolio_data.holdings, SizeView)]

LocationView(holding) ==
    LET company_info == GetOr(holding.analysis, "hq_location", <<>>)
    IN  [portfolio_percentage |-> Percentage(holding),
         country |-> Field(company_info, "country"),
         region |-> IF Truthy(Field(company_info, "city"))
                    THEN Field(company_info, "city")
                    ELSE Field(company_info, "state")]

prepare_location_data(portfolio_data) ==
    [holdings |-> MapSeq(SelectSeq(portfolio_data.holdings, NotETF), LocationView)]

MomentumView(holding) ==
    [portfolio_percentage |-> Percentage(holding),
     trailing_return_1m |-> Field(holding.analysis, "trailing_return_1m")]

prepare_momentum_data(portfolio_data) ==
    [holdings |-> MapSeq(SelectSeq(portfolio_data.holdings, NotETF), MomentumView)]

\* A dispatch sequence that invokes the combiner before the last two functions.
DispatchOrderEarly ==
    << "portfolio-volatility-analysis", "portfolio-sector-analysis",
       "portfolio-size-analysis", "result_compiler",
       "portfolio-location-analysis", "portfolio-momentum-analysis" >>

\* The dispatch sequence of lambda_handler: the five invoke_lambda calls in
\* program order, then the combiner.
DispatchOrder ==
    << "portfolio-volatility-analysis", "portfolio-sector-analysis",
       "portfolio-size-analysis", "portfolio-location-analysis",
       "portfolio-momentum-analysis", "result_compiler" >>

DimensionFunctions ==
    { "portfolio-volatility-analysis", "portfolio-sector-analysis",
      "portfolio-size-analysis", "portfolio-location-analysis",
      "portfolio-momentum-analysis" }

\* The payload the dispatcher prepares for a dimension function.
PrepareFor(fn, portfolio_data) ==
    CASE fn = "portfolio-volatility-analysis" -> prepare_volatility_data(portfolio_data)
      [] fn = "portfolio-sector-analysis"     -> prepare_sector_data(portfolio_data)
      [] fn = "portfolio-size-analysis"       -> prepare_size_data(portfolio_data)
      [] fn = "portfolio-location-analysis"   -> prepare_location_data(portfolio_data)
      [] OTHER                                -> prepare_momentum_data(portfolio_data)

-----------------------------------------------------------------------------
(* bias-analysis/*.py: the five dimension handlers *)

\* event.get("uniqueIdentifier") as it prints in an f-string
IdText(uniqueIdentifier) ==
    IF uniqueIdentifier = None THEN "None" ELSE uniqueIdentifier[1]

\* A key copied from size.py into every handler.
s3_key_size(uniqueIdentifier, dimension) ==
    "results/" \o IdText(uniqueIdentifier) \o "/size_results.json"

\* f"results/{uniqueIdentifier}/{dimension}_results.json"
s3_key(uniqueIdentifier, dimension) ==
    "results/" \o IdText(uniqueIdentifier) \o "/" \o dimension \o "_results.json"

\* event.get("data", {}).get("holdings", [])
EventHoldings(event) ==
    IF event.data = None THEN <<>> ELSE event.data[1].holdings

\* What a handler run does: the response it returns (0 stands for a handler
\* that falls off its end and returns None), the object it stores if any,
\* and whether the infrastructure failure it was given was met.
Outcome(statusCode, put, hit) ==
    [statusCode |-> statusCode, put |-> put, hit |-> hit]

Stored(key, body) == Some([key |-> key, body |-> body])

\* round-half-even of n/d, d > 0 (Python's round on the quotient)
RoundDiv(n, d) ==
    LET q == n \div d
        r == n % d
    IN  IF 2 * r < d THEN q
        ELSE IF 2 * r > d THEN q + 1
        ELSE IF q % 2 = 0 THEN q ELSE q + 1

\* sorted(..., reverse=True) on a sequence of <<key, item>> pairs: descending
\* keys, equal keys keep their order
SortDesc(items) ==
    Bind(items, LAMBDA s :
        LET Before(i, j) == s[i][1] > s[j][1] \/ (s[i][1] = s[j][1] /\ i < j)
            Rank(i) == 1 + Cardinality({j \in 1..Len(s) : Before(j, i)})
        IN  [r \in 1..Len(s) |-> s[CHOOSE i \in 1..Len(s) : Rank(i) = r]])

\* A float of the code kept exact: the fraction num/den, den > 0.
Frac(n, d) ==
    IF d < 0 THEN [num |-> 0 - n, den |-> 0 - d] ELSE [num |-> n, den |-> d]

FracLess(a, b) == a.num * b.den < b.num * a.den

FracEq(a, b) == a.num * b.den = b.num * a.den

FracAdd(a, b) ==
    IF a.num = 0 THEN b
    ELSE IF b.num = 0 THEN a
    ELSE IF a.den = b.den THEN Frac(a.num + b.num, a.den)
    ELSE Frac(a.num * b.den + b.num * a.den, a.den * b.den)

FracMul(a, b) == Frac(a.num * b.num, a.den * b.den)

\* sum() of a sequence of fractions
RECURSIVE FracSum(_)
FracSum(s) ==
    IF s = <<>> THEN Frac(0, 1)
    ELSE Bind(FracSum(Tail(s)), LAMBDA rest : FracAdd(Head(s), rest))

\* dict.values() of a dict kept as a sequence of pairs
DictValues(d) == [i \in 1..Len(d) |-> d[i][2]]

\* A handler that compares positive weighted returns only.
momentum_lambda_handler_positive(event, fault) ==
    LET holdings == EventHoldings(event)
        Contribution(h) ==
            OrZero(Field(h, "trailing_return_1m"))
              * OrZero(Field(h, "portfolio_percentage"))
        weighted_trailing_return == SumSeq(MapSeq(holdings, Contribution))
        momentum_comparison ==
            IF weighted_trailing_return > 0
            THEN Some([num |-> weighted_trailing_return - 35000, den |-> 350])
            ELSE None
        result == [price_momentum_comparison |-> momentum_comparison,
                   sp500_momentum |-> 35000,
                   calculated_weighted_momentum |-> weighted_trailing_return]
    IN  IF fault = "s3" THEN Outcome(500, None, TRUE)
        ELSE Outcome(200, Stored(s3_key(event.uniqueIdentifier, "momentum"), result),
                     FALSE)

\* momentum.py lambda_handler
momentum_lambda_handler(event, fault) ==
    LET holdings == EventHoldings(event)
        Contribution(h) ==
            OrZero(Field(h, "trailing_return_1m"))
              * OrZero(Field(h, "portfolio_percentage"))
        \* in units of 1/10000 percent: return (1/100) times weight (1/100)
        weighted_trailing_return == SumSeq(MapSeq(holdings, Contribution))
        \* ((w - 3.5) / 3.5) * 100 as a fraction
        momentum_comparison ==
            IF weighted_trailing_return # 0
            THEN Some([num |-> weighted_trailing_return - 35000, den |-> 350])
            ELSE None
        result == [price_momentum_comparison |-> momentum_comparison,
                   sp500_momentum |-> 35000,
                   calculated_weighted_momentum |-> weighted_trailing_return]
    IN  IF fault = "s3" THEN Outcome(500, None, TRUE)
        ELSE Outcome(200, Stored(s3_key(event.uniqueIdentifier, "momentum"), result),
                     FALSE)

\* volatility.py lambda_handler
volatility_lambda_handler(event, fault) ==
    LET holdings == EventHoldings(event)
        \* portfolio_pct / 100.0 raises TypeError on a null weight
        unweighted == \E i \in 1..Len(holdings) : Percentage(holdings[i]) = None
        ContributionBeta(h) == Percentage(h)[1] * OrZero(Field(h, "beta"))
        ContributionSharpe(h) == Percentage(h)[1] * OrZero(Field(h, "sharpe"))
        \* holding.get('asset_type', 'Unknown'): None for a key holding null
        AssetType(i) == GetOr(holdings[i], "asset_type", Some("Unknown"))
        types == {AssetType(i) : i \in 1..Len(holdings)}
        asset_type_count ==
            [t \in types |->
                Cardinality({i \in 1..Len(holdings) : AssetType(i) = t})]
        result == [unique_identifier |-> event.uniqueIdentifier,
                   weighted_beta |-> SumSeq(MapSeq(holdings, ContributionBeta)),
                   weighted_sharpe |-> SumSeq(MapSeq(holdings, ContributionSharpe)),
                   asset_types |-> asset_type_count,
                   risk_analysis |-> "commentary"]
    IN  IF unweighted THEN Outcome(500, None, FALSE)
        ELSE IF fault \in {"bedrock", "s3"} THEN Outcome(500, None, TRUE)
        ELSE Outcome(0, Stored(s3_key(event.uniqueIdentifier, "volatility"), result),
                     FALSE)

\* A normalization to a sum of 1.
normalize_sector_allocations_unit(sectors) ==
    Bind(SumSeq(DictValues(sectors)), LAMBDA total :
        IF total = 0 THEN MapSeq(sectors, LAMBDA e : <<e[1], Frac(e[2], 1)>>)
        ELSE MapSeq(sectors, LAMBDA e : <<e[1], Frac(e[2], total)>>))

\* sector.py normalize_sector_allocations: a mapping whose total is 0 comes
\* back as it is, any other one with (percentage / total) * 100
normalize_sector_allocations(sectors) ==
    Bind(SumSeq(DictValues(sectors)), LAMBDA total :
        IF total = 0 THEN MapSeq(sectors, LAMBDA e : <<e[1], Frac(e[2], 1)>>)
        ELSE MapSeq(sectors, LAMBDA e : <<e[1], Frac(e[2] * 100, total)>>))

\* sector.py sp500_sectors, in half percents (27.5 is 55)
sp500_sectors ==
    << <<"Information Technology", 55>>, <<"Health Care", 27>>,
       <<"Financials", 22>>, <<"Consumer Discretionary", 20>>,
       <<"Communication Services", 18>>, <<"Industrials", 17>>,
       <<"Consumer Staples", 14>>, <<"Energy", 8>>, <<"Utilities", 7>>,
       <<"Real Estate", 7>>, <<"Materials", 5>> >>

\* The float round(dot / (sqrt(sq_a) * sqrt(sq_b)) * 100, 2), kept as the
\* three numbers it is computed from; a dot product of 0 gives 0.0.
Cosine(dot, sq_a, sq_b) == [dot |-> dot, sq_a |-> sq_a, sq_b |-> sq_b]

\* The float 0.0
Zero == Cosine(Frac(0, 1), Frac(1, 1), Frac(1, 1))

Rounded(dot, sq_a, sq_b) ==
    IF dot.num = 0 THEN Zero ELSE Cosine(dot, sq_a, sq_b)

\* [d.get(k, 0.0) for k in keys], keys in any order
Vector(d, keys) ==
    Bind(d, LAMBDA dict : Bind(keys, LAMBDA ks :
        [i \in 1..Len(ks) |->
            IF ks[i] \in DictKeys(dict)
            THEN dict[CHOOSE j \in 1..Len(dict) : dict[j][1] = ks[i]][2]
            ELSE Frac(0, 1)]))

\* set(a.keys()) | set(b.keys()) as a sequence
KeyUnion(a, b) ==
    [i \in 1..Len(a) |-> a[i][1]]
      \o SelectSeq([i \in 1..Len(b) |-> b[i][1]], LAMBDA k : k \notin DictKeys(a))

\* sum(x * y for x, y in zip(a, b))
Dot(a, b) ==
    Bind([i \in 1..Len(a) |-> FracMul(a[i], b[i])], LAMBDA products :
         FracSum(products))

\* A similarity that divides whatever the magnitudes are.
SimilarityOf_unguarded(sp500_vector, user_vector) ==
    Bind(sp500_vector, LAMBDA a : Bind(user_vector, LAMBDA b :
        Cosine(Dot(a, b), Dot(a, a), Dot(b, b))))

\* sector.py calculate_similarity, lines 36-48, and size.py
\* cosine_similarity, lines 14-20: the cosine of two vectors, 0.0 when a
\* magnitude is 0
SimilarityOf(sp500_vector, user_vector) ==
    Bind(sp500_vector, LAMBDA a : Bind(user_vector, LAMBDA b :
    Bind(Dot(a, a), LAMBDA sq_a : Bind(Dot(b, b), LAMBDA sq_b :
        IF sq_a.num = 0 \/ sq_b.num = 0 THEN Zero
        ELSE Rounded(Dot(a, b), sq_a, sq_b)))))

\* sector.py calculate_similarity
calculate_similarity(sp500, user) ==
    Bind(normalize_sector_allocations(sp500), LAMBDA sp500_normalized :
    Bind(normalize_sector_allocations(user), LAMBDA user_normalized :
    Bind(KeyUnion(sp500_normalized, user_normalized), LAMBDA all_sectors :
        SimilarityOf(Vector(sp500_normalized, all_sectors),
                     Vector(user_normalized, all_sectors)))))

caps == <<"Mega-cap", "Large-cap", "Mid-cap", "Small-cap", "Micro-cap", "Nano-cap">>

\* size.py global_market
global_market ==
    << <<"Mega-cap", 35>>, <<"Large-cap", 35>>, <<"Mid-cap", 20>>,
       <<"Small-cap", 5>>, <<"Micro-cap", 5>>, <<"Nano-cap", 0>> >>

\* A dict of numbers as a dict of floats
Floats(d) == MapSeq(d, LAMBDA e : <<e[1], Frac(e[2], 1)>>)

\* size.py cosine_similarity
cosine_similarity(portfolio, market) ==
    SimilarityOf(Vector(portfolio, caps), Vector(market, caps))

\* str.endswith
EndsWith(s, p) == Len(s) >= Len(p) /\ SubSeq(s, Len(s) - Len(p) + 1, Len(s)) = p

Lower == "abcdefghijklmnopqrstuvwxyz"

Upper == "ABCDEFGHIJKLMNOPQRSTUVWXYZ"

\* str.upper
RECURSIVE UpperFrom(_, _)
UpperFrom(s, i) ==
    IF i > Len(s) THEN ""
    ELSE (IF \E j \in 1..Len(Lower) : SubSeq(Lower, j, j) = SubSeq(s, i, i)
          THEN SubSeq(Upper, CHOOSE j \in 1..Len(Lower) :
                                 SubSeq(Lower, j, j) = SubSeq(s, i, i),
                             CHOOSE j \in 1..Len(Lower) :
                                 SubSeq(Lower, j, j) = SubSeq(s, i, i))
          ELSE SubSeq(s, i, i)) \o UpperFrom(s, i + 1)

Digits == "0123456789"

DigitValue(c) == (CHOOSE j \in 1..Len(Digits) : SubSeq(Digits, j, j) = c) - 1

\* A number of the code kept exact: m * 10^e. A zero has e = 0.
Number(m, e) == IF m = 0 THEN [m |-> 0, e |-> 0] ELSE [m |-> m, e |-> e]

\* The digits of a decimal numeral from position i on: digits with at most
\* one point and at least one digit, or None (ValueError). m is the number
\* read so far, e minus the count of its decimals, n the count of its digits.
RECURSIVE Numeral(_, _, _, _, _, _)
Numeral(s, i, m, e, point, n) ==
    IF i > Len(s) THEN (IF n = 0 THEN None ELSE Some(Number(m, e)))
    ELSE IF \E j \in 1..Len(Digits) : SubSeq(Digits, j, j) = SubSeq(s, i, i)
    THEN Numeral(s, i + 1, m * 10 + DigitValue(SubSeq(s, i, i)),
                 IF point THEN e - 1 ELSE e, point, n + 1)
    ELSE IF SubSeq(s, i, i) = "." /\ ~point
    THEN Numeral(s, i + 1, m, e, TRUE, n)
    ELSE None

\* float(str) for decimal numerals: blanks around, a sign, digits with an
\* optional point; None stands for ValueError. Exponents, "inf", "nan" and
\* underscores are not read.
Float(str) ==
    Bind(Strip(str), LAMBDA s :
        IF StartsWith(s, "-")
        THEN Bind(Numeral(s, 2, 0, 0, FALSE, 0), LAMBDA r :
                  IF r = None THEN None ELSE Some(Number(0 - r[1].m, r[1].e)))
        ELSE IF StartsWith(s, "+") THEN Numeral(s, 2, 0, 0, FALSE, 0)
        ELSE Numeral(s, 1, 0, 0, FALSE, 0))

\* A product that forgets the multiplier.
Times_unscaled(str, exponent) ==
    Bind(Float(str), LAMBDA r :
        IF r = None THEN Number(0, 0) ELSE Number(r[1].m, r[1].e))

\* float(market_cap_str) * multiplier, 0 when float raises
Times(str, exponent) ==
    Bind(Float(str), LAMBDA r :
        IF r = None THEN Number(0, 0) ELSE Number(r[1].m, r[1].e + exponent))

\* size.py parse_market_cap, on None or a string
parse_market_cap(market_cap_str) ==
    IF ~Truthy(market_cap_str) THEN Number(0, 0)
    ELSE Bind(market_cap_str[1], LAMBDA str :
         Bind(UpperFrom(str, 1), LAMBDA upper :
         Bind(Strip(Replace(upper, ",", "")), LAMBDA s :
            IF EndsWith(s, "T") THEN Times(SubSeq(s, 1, Len(s) - 1), 12)
            ELSE IF EndsWith(s, "B") THEN Times(SubSeq(s, 1, Len(s) - 1), 9)
            ELSE IF EndsWith(s, "M") THEN Times(SubSeq(s, 1, Len(s) - 1), 6)
            ELSE Times(s, 0))))

RECURSIVE Pow10(_)
Pow10(n) == IF n = 0 THEN 1 ELSE 10 * Pow10(n - 1)

Sign(n) == IF n < 0 THEN 0 - 1 ELSE IF n > 0 THEN 1 ELSE 0

\* The sign of x - t * 10^k for a number x with |x.m| < 10^9 and t in 1..9.
Compare(x, t, k) ==
    IF x.m <= 0 THEN 0 - 1
    ELSE IF x.e > k THEN 1
    ELSE IF k - x.e >= 9 THEN 0 - 1
    ELSE Sign(x.m - t * Pow10(k - x.e))

\* A chain whose second test leaves 200_000_000_000 itself out.
Tier_open(market_num) ==
    Bind(market_num, LAMBDA n :
        IF Compare(n, 2, 11) > 0 THEN "Mega-cap"
        ELSE IF Compare(n, 1, 10) >= 0 /\ Compare(n, 2, 11) < 0 THEN "Large-cap"
        ELSE IF Compare(n, 2, 9) >= 0 /\ Compare(n, 1, 10) < 0 THEN "Mid-cap"
        ELSE IF Compare(n, 3, 8) >= 0 /\ Compare(n, 2, 9) < 0 THEN "Small-cap"
        ELSE IF Compare(n, 5, 7) >= 0 /\ Compare(n, 3, 8) < 0 THEN "Micro-cap"
        ELSE "Nano-cap")

\* size.py lambda_handler, lines 64-75: the counter a magnitude increments
Tier(market_num) ==
    Bind(market_num, LAMBDA n :
        IF Compare(n, 2, 11) > 0 THEN "Mega-cap"
        ELSE IF Compare(n, 1, 10) >= 0 /\ Compare(n, 2, 11) <= 0 THEN "Large-cap"
        ELSE IF Compare(n, 2, 9) >= 0 /\ Compare(n, 1, 10) < 0 THEN "Mid-cap"
        ELSE IF Compare(n, 3, 8) >= 0 /\ Compare(n, 2, 9) < 0 THEN "Small-cap"
        ELSE IF Compare(n, 5, 7) >= 0 /\ Compare(n, 3, 8) < 0 THEN "Micro-cap"
        ELSE "Nano-cap")

\* lines 48-55: cap_counts before the loop
NoCounts == [i \in 1..Len(caps) |-> <<caps[i], 0>>]

\* lines 60-75: the loop over the holdings
RECURSIVE CapCounts(_, _)
CapCounts(holdings, cap_counts) ==
    IF holdings = <<>> THEN cap_counts
    ELSE Bind(Tier(parse_market_cap(Field(Head(holdings), "market_cap"))),
              LAMBDA cap :
                 Bind(DictSet(cap_counts, cap, DictGet(cap_counts, cap) + 1),
                      LAMBDA next : CapCounts(Tail(holdings), next)))

\* Percentages of one holding more than there are.
cap_percentages_off(cap_counts, total_holdings) ==
    MapSeq(cap_counts,
           LAMBDA e : <<e[1], Frac(RoundDiv(e[2] * 10000, total_holdings + 1), 100)>>)

\* line 76: round((count / total_holdings) * 100, 2) if total_holdings else 0,
\* as a float
cap_percentages(cap_counts, total_holdings) ==
    MapSeq(cap_counts,
           LAMBDA e : <<e[1], IF total_holdings # 0
                              THEN Frac(RoundDiv(e[2] * 10000, total_holdings), 100)
                              ELSE Frac(0, 1)>>)

\* sector.py line 100: holding.get('sector', 'Unknown'); a key of the dict
\* is Some(name), or None for a null
SectorOf(holding) == GetOr(holding, "sector", Some("Unknown"))

\* sector.py process_holdings_to_sectors, lines 99-106: the loop, on
\* holdings whose weights are numbers
RECURSIVE SectorAccum(_, _)
SectorAccum(holdings, sector_allocations) ==
    IF holdings = <<>> THEN sector_allocations
    ELSE Bind(DictSet(sector_allocations, SectorOf(Head(holdings)),
                      DictGet(sector_allocations, SectorOf(Head(holdings)))
                        + Percentage(Head(holdings))[1]),
              LAMBDA next : SectorAccum(Tail(holdings), next))

\* sector.py process_holdings_to_sectors
process_holdings_to_sectors(holdings) == SectorAccum(holdings, <<>>)

\* The S&P 500 table with its keys as keys of a dict
Keyed(d) == MapSeq(d, LAMBDA e : <<Some(e[1]), e[2]>>)

\* A handler that stores a result without commentary when Bedrock fails.
sector_lambda_handler_lenient(event, fault) ==
    IF ~Truthy(event.uniqueIdentifier) \/ EventHoldings(event) = <<>>
    THEN Outcome(400, None, FALSE)
    ELSE IF fault = "s3" THEN Outcome(500, None, TRUE)
    ELSE Outcome(200,
                 Stored(s3_key(event.uniqueIdentifier, "sector"),
                        [unique_identifier |-> event.uniqueIdentifier,
                         sp500_sectors |-> sp500_sectors,
                         user_sectors |-> process_holdings_to_sectors(EventHoldings(event)),
                         similarity_percentage |->
                             calculate_similarity(Keyed(sp500_sectors),
                                 process_holdings_to_sectors(EventHoldings(event))),
                         bias_analysis |-> IF fault = "bedrock" THEN "" ELSE "commentary"]),
                 fault = "bedrock")

\* sector.py lambda_handler
sector_lambda_handler(event, fault) ==
    LET holdings == EventHoldings(event)
        user_sectors == process_holdings_to_sectors(holdings)
        response_data ==
            Bind(user_sectors, LAMBDA sectors :
                [unique_identifier |-> event.uniqueIdentifier,
                 sp500_sectors |-> sp500_sectors,
                 user_sectors |-> sectors,
                 similarity_percentage |->
                     calculate_similarity(Keyed(sp500_sectors), sectors),
                 bias_analysis |-> "commentary"])
    IN  IF ~Truthy(event.uniqueIdentifier) THEN Outcome(400, None, FALSE)
        ELSE IF event.data = None THEN Outcome(400, None, FALSE)
        ELSE IF holdings = <<>> THEN Outcome(400, None, FALSE)
        ELSE IF fault \in {"bedrock", "s3"} THEN Outcome(500, None, TRUE)
        ELSE Outcome(200, Stored(s3_key(event.uniqueIdentifier, "sector"),
                                 response_data), FALSE)

\* size.py lambda_handler, lines 91-104: the four holdings of largest gain
top_holdings_summary(holdings) ==
    Bind(SortDesc(MapSeq(holdings,
                         LAMBDA h : <<OrZero(h.total_gain_percent), h>>)),
         LAMBDA sorted :
            MapSeq(SubSeq(sorted, 1, IF Len(sorted) < 4 THEN Len(sorted) ELSE 4),
                   LAMBDA e : [symbol |-> e[2].symbol, value |-> e[2].value,
                               total_gain_percent |-> e[2].total_gain_percent]))

\* size.py lambda_handler, lines 48-112: the result document; market_cap
\* stands for its key "market-cap"
size_result(holdings) ==
    Bind(cap_percentages(CapCounts(holdings, NoCounts), Len(holdings)),
         LAMBDA percentages :
            [market_cap |-> percentages,
             sp500 |-> global_market,
             similarity_percentage |->
                 cosine_similarity(percentages, Floats(global_market)),
             top_holdings |-> top_holdings_summary(holdings)])

\* size.py lambda_handler
size_lambda_handler(event, fault) ==
    LET holdings == EventHoldings(event)
        \* sorted() compares the keys: a None among two or more raises TypeError
        unorderable == /\ Len(holdings) >= 2
                       /\ \E i \in 1..Len(holdings) :
                              holdings[i].total_gain_percent = None
    IN  IF unorderable THEN Outcome(500, None, FALSE)
        ELSE IF fault = "s3" THEN Outcome(500, None, TRUE)
        ELSE Outcome(0, Stored(s3_key(event.uniqueIdentifier, "size"),
                               size_result(holdings)), FALSE)

\* holding.get(name, '').strip() if holding.get(name) else ''
Stripped(holding, name) ==
    IF Truthy(Field(holding, name)) THEN Strip(holding[name][1]) ELSE ""

\* A key that prefers the city to the state.
LocationKey_city_first(country, city, state) ==
    IF city # "" THEN city \o ", " \o (IF country = "" THEN "Unknown" ELSE country)
    ELSE IF state # "" THEN state \o ", " \o (IF country = "" THEN "Unknown" ELSE country)
    ELSE IF country = "" THEN "Unknown" ELSE country

\* location.py process_holdings_to_locations, lines 30-38: the composite key
LocationKey(country, city, state) ==
    IF state # "" THEN state \o ", " \o (IF country = "" THEN "Unknown" ELSE country)
    ELSE IF city # "" THEN city \o ", " \o (IF country = "" THEN "Unknown" ELSE country)
    ELSE IF country = "" THEN "Unknown" ELSE country

\* lines 40-43: location_allocations[location] += percentage
Accumulate(acc, location, percentage) ==
    [allocations |-> DictSet(acc.allocations, location,
                             DictGet(acc.allocations, location) + percentage),
     total_percentage |-> acc.total_percentage + percentage]

\* A loop that counts a holding without location data in the total.
LocationStep_counting(acc, holding) ==
    IF Percentage(holding) = None THEN acc
    ELSE IF Percentage(holding)[1] <= 0 THEN acc
    ELSE IF /\ Stripped(holding, "country") = ""
            /\ Stripped(holding, "city") = ""
            /\ Stripped(holding, "state") = ""
         THEN [acc EXCEPT !.total_percentage = @ + Percentage(holding)[1]]
    ELSE Accumulate(acc,
                    LocationKey(Stripped(holding, "country"),
                                Stripped(holding, "city"),
                                Stripped(holding, "state")),
                    Percentage(holding)[1])

\* lines 13-47: one turn of the loop on the allocations (a dict in insertion
\* order) and their total; the comparison of a null weight with 0 raises
\* TypeError, which the loop catches to go on with the next holding
LocationStep(acc, holding) ==
    IF Percentage(holding) = None THEN acc
    ELSE IF Percentage(holding)[1] <= 0 THEN acc
    ELSE IF /\ Stripped(holding, "country") = ""
            /\ Stripped(holding, "city") = ""
            /\ Stripped(holding, "state") = ""
         THEN acc
    ELSE Accumulate(acc,
                    LocationKey(Stripped(holding, "country"),
                                Stripped(holding, "city"),
                                Stripped(holding, "state")),
                    Percentage(holding)[1])

RECURSIVE LocationAccum(_, _)
LocationAccum(holdings, acc) ==
    IF holdings = <<>> THEN acc
    ELSE Bind(LocationStep(acc, Head(holdings)),
              LAMBDA next : LocationAccum(Tail(holdings), next))

\* lines 10-11: the loop starts from no allocation and a total of 0
NoAllocations == [allocations |-> <<>>, total_percentage |-> 0]

\* location.py process_holdings_to_locations, lines 51-56: the allocations
\* as (percentage / total_percentage) * 100 when the total is positive
process_holdings_to_locations(holdings) ==
    Bind(LocationAccum(holdings, NoAllocations),
         LAMBDA acc :
            IF acc.total_percentage > 0
            THEN MapSeq(acc.allocations,
                        LAMBDA e : <<e[1], Frac(e[2] * 100, acc.total_percentage)>>)
            ELSE MapSeq(acc.allocations, LAMBDA e : <<e[1], Frac(e[2], 1)>>))

\* round(percentage, 2), in hundredths
Round2(percentage) == RoundDiv(percentage.num * 100, percentage.den)

\* location.py create_weighted_location_list: rounded percentages, the
\* largest first
create_weighted_location_list(user_locations) ==
    MapSeq(SortDesc(MapSeq(user_locations,
                LAMBDA e : <<Round2(e[2]),
                             [location |-> e[1], percentage |-> Round2(e[2])]>>)),
           LAMBDA e : e[2])

\* location.py lambda_handler
location_lambda_handler(event, fault) ==
    LET holdings == EventHoldings(event)
        \* line 160: sum() raises TypeError on a null weight
        unweighted == \E i \in 1..Len(holdings) : Percentage(holdings[i]) = None
        total_percentage ==
            SumSeq(MapSeq(holdings, LAMBDA h : Percentage(h)[1]))
        Response(user_locations) ==
            [unique_identifier |-> event.uniqueIdentifier,
             weighted_locations |-> create_weighted_location_list(user_locations)]
    IN  Bind(process_holdings_to_locations(holdings), LAMBDA user_locations :
        IF ~Truthy(event.uniqueIdentifier) THEN Outcome(400, None, FALSE)
        ELSE IF event.data = None THEN Outcome(400, None, FALSE)
        ELSE IF holdings = <<>> THEN Outcome(400, None, FALSE)
        ELSE IF unweighted THEN Outcome(500, None, FALSE)
        ELSE IF \E i \in 1..Len(holdings) :
                    \/ Percentage(holdings[i])[1] < 0
                    \/ Percentage(holdings[i])[1] > 100
             THEN Outcome(400, None, FALSE)
        ELSE IF total_percentage > 100 THEN Outcome(400, None, FALSE)
        ELSE IF user_locations = <<>> THEN Outcome(400, None, FALSE)
        ELSE IF fault = "s3" THEN Outcome(500, None, TRUE)
        ELSE Outcome(200, Stored(s3_key(event.uniqueIdentifier, "location"),
                                 Response(user_locations)), FALSE))

\* The handler Lambda runs for an invocation of a dimension function.
Handle(event, fault) ==
    CASE event.fn = "portfolio-volatility-analysis" -> volatility_lambda_handler(event, fault)
      [] event.fn = "portfolio-sector-analysis"     -> sector_lambda_handler(event, fault)
      [] event.fn = "portfolio-size-analysis"       -> size_lambda_handler(event, fault)
      [] event.fn = "portfolio-location-analysis"   -> location_lambda_handler(event, fault)
      [] OTHER                                      -> momentum_lambda_handler(event, fault)

-----------------------------------------------------------------------------
(* result-compiler.py *)

\* A list of required files with one name misspelt.
required_files_typo ==
    << "location_results.json", "momentum_results.json", "sector_results.json",
       "sizes_results.json", "volatility_results.json" >>

required_files ==
    << "location_results.json", "momentum_results.json", "sector_results.json",
       "size_results.json", "volatility_results.json" >>

\* prefix = f"results/{uniqueIdentifier}/"
\* A prefix without the closing slash.
PrefixOpen(uniqueIdentifier) == "results/" \o IdText(uniqueIdentifier)

Prefix(uniqueIdentifier) == "results/" \o IdText(uniqueIdentifier) \o "/"

\* A listing that keeps the full keys.
found_files_raw(store, prefix) == ListObjects(store, prefix)

\* found_files = [obj["Key"].replace(prefix, "") for obj in response["Contents"]]
found_files(store, prefix) ==
    {Replace(k, prefix, "") : k \in ListObjects(store, prefix)}

\* A check that forgets the last required file.
missing_files_lax(found) ==
    SelectSeq(required_files,
              LAMBDA f : f \notin found /\ f # "volatility_results.json")

\* missing_files = [f for f in required_files if f not in found_files]
missing_files(found) == SelectSeq(required_files, LAMBDA f : f \notin found)

\* A key that drops "_results.json".
CombinedEntryBare(filename) == Replace(filename, "_results.json", "")

\* the key of a document in the combined dict: filename.replace(".json", "")
CombinedEntry(filename) == Replace(filename, ".json", "")

\* A combined key that leaves the identifier out.
combined_key_shared(uniqueIdentifier) == "combined_results.json"

\* combined_key = f"{uniqueIdentifier}_combined_results.json"
combined_key(uniqueIdentifier) == IdText(uniqueIdentifier) \o "_combined_results.json"

-----------------------------------------------------------------------------
(* State *)

\* parts[1] of the source key
Identifier(k) == Split(unquote_plus(k), "/")[2]

Identifiers ==
    {Identifier(k) : k \in {x \in SourceKeys : Len(Split(unquote_plus(x), "/")) >= 3}}

NoOutcome == [status |-> "none", error |-> "", missing |-> <<>>]

Raised(error, missing) == [status |-> "raised", error |-> error, missing |-> missing]

Returned == [status |-> "returned", error |-> "", missing |-> <<>>]

NoLocals == [found |-> {}, i |-> 0, combined_data |-> <<>>]

\* No function is called on its own.
NoCall == [fn |-> "", args |-> <<>>]

\* A retry loop before its first iteration: the iterations begun, the
\* requests made to the data source, the message of the exception the last
\* iteration caught.
NoFetch == [attempt |-> 0, requests |-> 0, error |-> None]

Start(delivered, failures) ==
    /\ events = delivered
    /\ s3 = [k \in {} |-> None]
    /\ pending = {}
    /\ dpc = [k \in SourceKeys |-> 0]
    /\ dresp = [k \in SourceKeys |-> 0]
    /\ attempts = [k \in SourceKeys |-> <<>>]
    /\ tresp = {}
    /\ cpc = [id \in Identifiers |-> "idle"]
    /\ clocal = [id \in Identifiers |-> NoLocals]
    /\ cout = [id \in Identifiers |-> NoOutcome]
    /\ puts = [k \in {} |-> 0]
    /\ access = {}
    /\ faults = failures
    /\ call = NoCall
    /\ retval = None
    /\ fetch = NoFetch

\* One notification, failures possible.
Init == \E delivered \in Scenarios : Start(delivered, 0)

\* Two concurrent submissions on infrastructure that does not fail.
InitConcurrent == Start(Concurrent, MaxFaults)

\* One submission on infrastructure that does not fail.
InitReliable == Start({"in/a/p.json"}, MaxFaults)

\* An infrastructure call either succeeds or, while the budget lasts, fails.
CallOutcomes == IF faults < MaxFaults THEN {TRUE, FALSE} ELSE {TRUE}

Charge(ok) == faults' = IF ok THEN faults ELSE faults + 1

Call(who, op, key) == [who |-> who, op |-> op, key |-> key]

-----------------------------------------------------------------------------
(* bias-router.py lambda_handler *)

\* Lines 132-149: parse the key, download the portfolio.
DispatcherStart(k) ==
    /\ k \in events
    /\ dpc[k] = 0
    /\ \E source_key \in {unquote_plus(k)} : \E parts \in {Split(source_key, "/")} :
           IF Len(parts) >= 3
           THEN \E ok \in CallOutcomes :
                   /\ Charge(ok)
                   /\ IF ok /\ source_key \in DOMAIN Uploads
                      THEN /\ dpc' = [dpc EXCEPT ![k] = 1]
                           /\ dresp' = dresp
                      ELSE /\ dpc' = [dpc EXCEPT ![k] = Len(DispatchOrder) + 1]
                           /\ dresp' = [dresp EXCEPT ![k] = 500]
           ELSE /\ dpc' = [dpc EXCEPT ![k] = Len(DispatchOrder) + 1]
                /\ dresp' = [dresp EXCEPT ![k] = 500]
                /\ faults' = faults
    /\ UNCHANGED <<events, s3, pending, attempts, tresp, cpc, clocal, cout,
                   puts, access>>
    /\ UNCHANGED calc

\* What follows an invocation at position i of the dispatch sequence.
Advance(k, i) ==
    /\ dpc' = [dpc EXCEPT ![k] = i + 1]
    /\ dresp' = [dresp EXCEPT ![k] = IF i = Len(DispatchOrder) THEN 200 ELSE @]

\* A dispatcher that answers 500 at the first invocation that fails.
DispatcherInvoke_aborting(k) ==
    /\ k \in events
    /\ dpc[k] \in 1..Len(DispatchOrder)
    /\ DispatchOrder[dpc[k]] \in DimensionFunctions
    /\ \E event_payload \in
             {[fn |-> DispatchOrder[dpc[k]],
               uniqueIdentifier |-> Some(Identifier(k)),
               data |-> Some(PrepareFor(DispatchOrder[dpc[k]],
                                        Uploads[unquote_plus(k)]))]} :
           \E ok \in CallOutcomes :
              /\ Charge(ok)
              /\ attempts' = [attempts EXCEPT ![k] = Append(@, event_payload.fn)]
              /\ IF ok
                 THEN /\ pending' = pending \cup {event_payload}
                      /\ Advance(k, dpc[k])
                 ELSE /\ pending' = pending
                      /\ dpc' = [dpc EXCEPT ![k] = Len(DispatchOrder) + 1]
                      /\ dresp' = [dresp EXCEPT ![k] = 500]
    /\ UNCHANGED <<events, s3, tresp, cpc, clocal, cout, puts, access>>
    /\ UNCHANGED calc

\* Lines 152-165 with invoke_lambda (lines 110-124): prepare one view and
\* invoke its function; a failed invocation is printed and swallowed.
DispatcherInvoke(k) ==
    /\ k \in events
    /\ dpc[k] \in 1..Len(DispatchOrder)
    /\ DispatchOrder[dpc[k]] \in DimensionFunctions
    /\ \E event_payload \in
             {[fn |-> DispatchOrder[dpc[k]],
               uniqueIdentifier |-> Some(Identifier(k)),
               data |-> Some(PrepareFor(DispatchOrder[dpc[k]],
                                        Uploads[unquote_plus(k)]))]} :
           \E ok \in CallOutcomes :
              /\ Charge(ok)
              /\ pending' = IF ok THEN pending \cup {event_payload} ELSE pending
              /\ attempts' = [attempts EXCEPT ![k] = Append(@, event_payload.fn)]
    /\ Advance(k, dpc[k])
    /\ UNCHANGED <<events, s3, tresp, cpc, clocal, cout, puts, access>>
    /\ UNCHANGED calc

\* Lines 169-184: invoke the combiner; a failed invocation reaches the
\* handler's except clause and becomes a 500 response.
DispatcherInvokeCompiler(k) ==
    /\ k \in events
    /\ dpc[k] \in 1..Len(DispatchOrder)
    /\ DispatchOrder[dpc[k]] \notin DimensionFunctions
    /\ LET fn == DispatchOrder[dpc[k]]
           event_payload == [fn |-> fn,
                             uniqueIdentifier |-> Some(Identifier(k)),
                             data |-> None]
       IN  \E ok \in CallOutcomes :
              /\ Charge(ok)
              /\ attempts' = [attempts EXCEPT ![k] = Append(@, fn)]
              /\ IF ok
                 THEN /\ pending' = pending \cup {event_payload}
                      /\ Advance(k, dpc[k])
                 ELSE /\ pending' = pending
                      /\ dpc' = [dpc EXCEPT ![k] = Len(DispatchOrder) + 1]
                      /\ dresp' = [dresp EXCEPT ![k] = 500]
    /\ UNCHANGED <<events, s3, tresp, cpc, clocal, cout, puts, access>>
    /\ UNCHANGED calc

-----------------------------------------------------------------------------
(* The dimension handlers run by Lambda *)

FaultChoices == IF faults < MaxFaults THEN {"none", "bedrock", "s3"} ELSE {"none"}

\* The events a caller other than the dispatcher may send to a dimension
\* function: any of the three shapes of identifier, no data, no holdings, or
\* the holdings of a reduced view.
DirectEvents ==
    {[fn |-> fn, uniqueIdentifier |-> uid, data |-> data] :
        fn \in DimensionFunctions,
        uid \in {None, Some(""), Some("a")},
        data \in {None, Some([holdings |-> <<>>])}}
    \cup
    {[fn |-> fn, uniqueIdentifier |-> uid,
      data |-> Some(PrepareFor(fn, Uploads[k]))] :
        fn \in DimensionFunctions,
        uid \in {None, Some(""), Some("a")},
        k \in DOMAIN Uploads}

\* Holdings as volatility.py reads them: weight and metrics that are
\* numbers (in hundredths) or null, or a holding without these keys.
VolatilityHoldings ==
    [symbol : {"A"}, portfolio_percentage : {None, Some(50)},
     beta : {None, Some(120), Some(80)}, sharpe : {None, Some(100)}]
      \cup {[symbol |-> "A"]}

\* Holdings as momentum.py reads them.
MomentumHoldings ==
    [portfolio_percentage : {None, Some(50)},
     trailing_return_1m : {None, Some(350), Some(0 - 350)}]
      \cup {[symbol |-> "A"]}

\* Direct invocations of the two handlers that weigh a metric.
MetricEvents ==
    {[fn |-> "portfolio-volatility-analysis", uniqueIdentifier |-> Some("a"),
      data |-> Some([holdings |-> h])] :
        h \in HoldingLists(VolatilityHoldings, MaxHoldings)}
    \cup
    {[fn |-> "portfolio-momentum-analysis", uniqueIdentifier |-> Some("a"),
      data |-> Some([holdings |-> h])] :
        h \in HoldingLists(MomentumHoldings, MaxHoldings)}

\* The invocations the dispatcher sends.
DispatchedEvents ==
    {[fn |-> fn, uniqueIdentifier |-> Some(Identifier(k)),
      data |-> Some(PrepareFor(fn, Uploads[k]))] :
        fn \in DimensionFunctions, k \in DOMAIN Uploads}

\* A handler's run depends on its event and on the failure it meets alone:
\* what the handlers do, by event and failure.
Outcomes ==
    [event \in DirectEvents \cup MetricEvents \cup DispatchedEvents,
     fault \in {"none", "bedrock", "s3"} |-> Handle(event, fault)]

RunHandler(event) ==
    /\ event \in pending
    /\ \E fault \in FaultChoices : \E out \in {Outcomes[event, fault]} :
          LET who == <<event.fn, IdText(event.uniqueIdentifier)>>
          IN  /\ fault # "none" => out.hit
              /\ Charge(~out.hit)
              /\ tresp' = tresp \cup {[fn |-> event.fn,
                                       uniqueIdentifier |-> event.uniqueIdentifier,
                                       statusCode |-> out.statusCode,
                                       fault |-> fault]}
              /\ IF out.put # None
                 THEN /\ s3' = PutObject(s3, out.put[1].key, out.put[1].body)
                      /\ puts' = Bump(puts, out.put[1].key)
                      /\ access' = access \cup {Call(who, "put", out.put[1].key)}
                 ELSE UNCHANGED <<s3, puts, access>>
    /\ pending' = pending \ {event}
    /\ UNCHANGED <<events, dpc, dresp, attempts, cpc, clocal, cout>>
    /\ UNCHANGED calc

RunVolatility(event) ==
    event.fn = "portfolio-volatility-analysis" /\ RunHandler(event)

RunSector(event) ==
    event.fn = "portfolio-sector-analysis" /\ RunHandler(event)

RunSize(event) ==
    event.fn = "portfolio-size-analysis" /\ RunHandler(event)

RunLocation(event) ==
    event.fn = "portfolio-location-analysis" /\ RunHandler(event)

RunMomentum(event) ==
    event.fn = "portfolio-momentum-analysis" /\ RunHandler(event)

-----------------------------------------------------------------------------
(* result-compiler.py lambda_handler *)

Compiler(id) == <<"result_compiler", id>>

\* Lines 11-25: the first listing.
CompilerList1(event) ==
    /\ event \in pending
    /\ event.fn = "result_compiler"
    /\ \E id \in {IdText(event.uniqueIdentifier)} :
       \E prefix \in {Prefix(event.uniqueIdentifier)} :
           /\ cpc[id] = "idle"
           /\ access' = access \cup {Call(Compiler(id), "list", prefix)}
           /\ IF ListObjects(s3, prefix) = {}
              THEN /\ cpc' = [cpc EXCEPT ![id] = "done"]
                   /\ cout' = [cout EXCEPT ![id] = Raised("No files found", <<>>)]
              ELSE /\ cpc' = [cpc EXCEPT ![id] = "list2"]
                   /\ cout' = cout
    /\ pending' = pending \ {event}
    /\ UNCHANGED <<events, s3, dpc, dresp, attempts, tresp, clocal, puts, faults>>
    /\ UNCHANGED calc

\* Lines 27-36: the second listing and the check of the required files.
CompilerList2(id) ==
    /\ cpc[id] = "list2"
    /\ \E prefix \in {Prefix(Some(id))} :
       \E found \in {found_files(s3, prefix)} :
       \E missing \in {missing_files(found)} :
           /\ access' = access \cup {Call(Compiler(id), "list", prefix)}
           /\ IF ListObjects(s3, prefix) = {}
              THEN /\ cpc' = [cpc EXCEPT ![id] = "done"]
                   /\ cout' = [cout EXCEPT ![id] = Raised("No files found", <<>>)]
                   /\ clocal' = clocal
              ELSE IF missing # <<>>
              THEN /\ cpc' = [cpc EXCEPT ![id] = "done"]
                   /\ cout' = [cout EXCEPT ![id] =
                                  Raised("Missing required result files", missing)]
                   /\ clocal' = [clocal EXCEPT ![id].found = found]
              ELSE /\ cpc' = [cpc EXCEPT ![id] = "read"]
                   /\ cout' = cout
                   /\ clocal' = [clocal EXCEPT ![id] =
                                    [found |-> found, i |-> 1, combined_data |-> <<>>]]
    /\ UNCHANGED <<events, s3, pending, dpc, dresp, attempts, tresp, puts, faults>>
    /\ UNCHANGED calc

\* Lines 38-45: one turn of the loop over required_files. A failed get_object
\* reaches "except ClientError", a name the module never imports, so the
\* run ends with a NameError in place of the "Error reading" exception.
CompilerRead(id) ==
    /\ cpc[id] = "read"
    /\ \E filename \in {required_files[clocal[id].i]} :
       \E key \in {Prefix(Some(id)) \o filename} :
           /\ access' = access \cup {Call(Compiler(id), "get", key)}
           /\ \E ok \in CallOutcomes :
                 /\ Charge(ok)
                 /\ IF ok /\ key \in DOMAIN s3
                    THEN /\ clocal' = [clocal EXCEPT
                                ![id].combined_data =
                                    DictSet(@, CombinedEntry(filename), s3[key]),
                                ![id].i = @ + 1]
                         /\ cpc' = [cpc EXCEPT ![id] =
                                IF clocal[id].i = Len(required_files)
                                THEN "put" ELSE "read"]
                         /\ cout' = cout
                    ELSE /\ clocal' = clocal
                         /\ cpc' = [cpc EXCEPT ![id] = "done"]
                         /\ cout' = [cout EXCEPT ![id] = Raised("NameError", <<>>)]
    /\ UNCHANGED <<events, s3, pending, dpc, dresp, attempts, tresp, puts>>
    /\ UNCHANGED calc

\* Lines 47-61: store the combined document; a failed put_object ends the
\* run with the same NameError.
CompilerPut(id) ==
    /\ cpc[id] = "put"
    /\ \E ok \in CallOutcomes :
          /\ Charge(ok)
          /\ cpc' = [cpc EXCEPT ![id] = "done"]
          /\ IF ok
             THEN /\ s3' = PutObject(s3, combined_key(Some(id)), clocal[id].combined_data)
                  /\ puts' = Bump(puts, combined_key(Some(id)))
                  /\ access' = access \cup
                        {Call(Compiler(id), "put", combined_key(Some(id)))}
                  /\ cout' = [cout EXCEPT ![id] = Returned]
             ELSE /\ UNCHANGED <<s3, puts, access>>
                  /\ cout' = [cout EXCEPT ![id] = Raised("NameError", <<>>)]
    /\ UNCHANGED <<events, pending, dpc, dresp, attempts, tresp, clocal>>
    /\ UNCHANGED calc

-----------------------------------------------------------------------------

Next ==
    \/ \E k \in SourceKeys : DispatcherStart(k)
    \/ \E k \in SourceKeys : DispatcherInvoke(k)
    \/ \E k \in SourceKeys : DispatcherInvokeCompiler(k)
    \/ \E event \in pending : RunVolatility(event)
    \/ \E event \in pending : RunSector(event)
    \/ \E event \in pending : RunSize(event)
    \/ \E event \in pending : RunLocation(event)
    \/ \E event \in pending : RunMomentum(event)
    \/ \E event \in pending : CompilerList1(event)
    \/ \E id \in Identifiers : CompilerList2(id)
    \/ \E id \in Identifiers : CompilerRead(id)
    \/ \E id \in Identifiers : CompilerPut(id)

Spec == Init /\ [][Next]_vars

SpecConcurrent == InitConcurrent /\ [][Next]_vars

\* Lambda runs every invocation it accepted, and a running handler goes on.
Fairness ==
    /\ \A k \in SourceKeys :
          /\ WF_vars(DispatcherStart(k))
          /\ WF_vars(DispatcherInvoke(k))
          /\ WF_vars(DispatcherInvokeCompiler(k))
    /\ WF_vars(\E event \in pending : RunVolatility(event))
    /\ WF_vars(\E event \in pending : RunSector(event))
    /\ WF_vars(\E event \in pending : RunSize(event))
    /\ WF_vars(\E event \in pending : RunLocation(event))
    /\ WF_vars(\E event \in pending : RunMomentum(event))
    /\ WF_vars(\E event \in pending : CompilerList1(event))
    /\ \A id \in Identifiers :
          /\ WF_vars(CompilerList2(id))
          /\ WF_vars(CompilerRead(id))
          /\ WF_vars(CompilerPut(id))

SpecFair == InitReliable /\ [][Next]_vars /\ Fairness

\* The dispatcher on its own, on infrastructure of which every call (the read
\* of the portfolio, the five invocations, the combiner's) may fail: the
\* count of failures starts that far below its limit.
InitDispatch ==
    \E delivered \in Scenarios :
        Start(delivered, MaxFaults - (Len(DispatchOrder) + 1))

NextDispatch ==
    \/ \E k \in SourceKeys : DispatcherStart(k)
    \/ \E k \in SourceKeys : DispatcherInvoke(k)
    \/ \E k \in SourceKeys : DispatcherInvokeCompiler(k)

SpecDispatch == InitDispatch /\ [][NextDispatch]_vars

\* One direct invocation of one dimension function.
InitDirect ==
    \E event \in DirectEvents \cup MetricEvents :
        /\ events = {}
        /\ s3 = [k \in {} |-> None]
        /\ pending = {event}
        /\ dpc = [k \in SourceKeys |-> 0]
        /\ dresp = [k \in SourceKeys |-> 0]
        /\ attempts = [k \in SourceKeys |-> <<>>]
        /\ tresp = {}
        /\ cpc = [id \in Identifiers |-> "idle"]
        /\ clocal = [id \in Identifiers |-> NoLocals]
        /\ cout = [id \in Identifiers |-> NoOutcome]
        /\ puts = [k \in {} |-> 0]
        /\ access = {}
        /\ faults = 0
        /\ call = NoCall
        /\ retval = None
        /\ fetch = NoFetch

NextDirect ==
    \/ \E event \in pending : RunVolatility(event)
    \/ \E event \in pending : RunSector(event)
    \/ \E event \in pending : RunSize(event)
    \/ \E event \in pending : RunLocation(event)
    \/ \E event \in pending : RunMomentum(event)

SpecDirect == InitDirect /\ [][NextDirect]_vars

-----------------------------------------------------------------------------
(* vercel-api-call/portfolio-yfinance-data.py: the enrichment *)

\* str.lower
RECURSIVE LowerFrom(_, _)
LowerFrom(s, i) ==
    IF i > Len(s) THEN ""
    ELSE (IF \E j \in 1..Len(Upper) : SubSeq(Upper, j, j) = SubSeq(s, i, i)
          THEN SubSeq(Lower, CHOOSE j \in 1..Len(Upper) :
                                 SubSeq(Upper, j, j) = SubSeq(s, i, i),
                             CHOOSE j \in 1..Len(Upper) :
                                 SubSeq(Upper, j, j) = SubSeq(s, i, i))
          ELSE SubSeq(s, i, i)) \o LowerFrom(s, i + 1)

\* sub in s
Contains(s, sub) ==
    \E i \in 1..(Len(s) - Len(sub) + 1) : SubSeq(s, i, i + Len(sub) - 1) = sub

\* get_asset_type, lines 157-177, on the quoteType, category and longName of
\* ticker.info
get_asset_type(info, ticker_symbol) ==
    LET quote_type == LowerFrom(GetOr(info, "quoteType", ""), 1)
        category == LowerFrom(GetOr(info, "category", ""), 1)
        long_name == LowerFrom(GetOr(info, "longName", ""), 1)
    IN  IF ticker_symbol # "" /\ LowerFrom(ticker_symbol, 1) = "cash" THEN "CASH"
        ELSE IF \E word \in {"cash", "money market", "treasury bill"} :
                    Contains(long_name, word)
        THEN "CASH"
        ELSE IF \/ Contains(quote_type, "bond") \/ Contains(category, "bond")
                \/ Contains(long_name, "bond") \/ Contains(category, "fixed income")
        THEN "BOND"
        ELSE IF quote_type = "etf" \/ Contains(long_name, "etf") THEN "ETF"
        ELSE "STOCK"

\* value if value else "Unknown"
OrUnknown(value) == IF Truthy(value) THEN value ELSE Some("Unknown")

\* lines 337-345: the return over the last 21 closes (over all of them when
\* there are 20) in hundredths of a percent, for closes in cents
stock_return_1m(close) ==
    LET month_ago_price == IF Len(close) >= 21 THEN close[Len(close) - 20]
                           ELSE close[1]
        current_price == close[Len(close)]
    IN  RoundDiv((current_price - month_ago_price) * 10000, month_ago_price)

\* lines 334-347: the analysis of a stock with its price momentum, when
\* there is a history of 20 closes or more
momentum_analysis(analysis, hist) ==
    IF hist # None /\ Len(hist[1]) >= 20
    THEN [asset_type |-> analysis.asset_type, sector |-> analysis.sector,
          industry |-> analysis.industry, hq_location |-> analysis.hq_location,
          price_momentum |-> [stock_return_1m |-> Some(stock_return_1m(hist[1]))]]
    ELSE analysis

\* enrich_holdings_batch, lines 298-360: the enriched copy of a holding, on
\* what get_ticker_info and get_historical_data_single return for its symbol
enrich_holding(holding, answer) ==
    LET info == answer.info[1]
        asset_type == get_asset_type(info, holding.symbol)
        analysis ==
            IF answer.info = None THEN [error |-> Some("Failed to retrieve data")]
            ELSE IF asset_type = "STOCK"
            THEN momentum_analysis(
                     [asset_type |-> Some(asset_type),
                      sector |-> OrUnknown(Field(info, "sector")),
                      industry |-> OrUnknown(Field(info, "industry")),
                      hq_location |->
                          [country |-> OrUnknown(Field(info, "country")),
                           city |-> OrUnknown(Field(info, "city")),
                           state |-> IF Truthy(Field(info, "state"))
                                     THEN Field(info, "state") ELSE None]],
                     answer.hist)
            ELSE IF asset_type = "ETF"
            THEN [asset_type |-> Some(asset_type),
                  category |-> GetOr(info, "category", "Unknown")]
            ELSE [asset_type |-> Some(asset_type)]
    IN  [symbol |-> holding.symbol,
         portfolio_percentage |-> holding.portfolio_percentage,
         analysis |-> analysis]

\* enrich_holdings_batch: the holdings with a symbol, enriched in order
enrich_holdings_batch(holdings, source) ==
    MapSeq(SelectSeq(holdings, LAMBDA h : h.symbol # ""),
           LAMBDA h : enrich_holding(h, source[h.symbol]))

\* Closes in cents: 21 days from 100.00 to 104.00, 20 days from 200.00 to
\* 190.00, 19 days.
Histories ==
    { None,
      Some([i \in 1..21 |-> IF i = 1 THEN 10000 ELSE 10400]),
      Some([i \in 1..20 |-> IF i = 1 THEN 20000 ELSE 19000]),
      Some([i \in 1..19 |-> 5000]) }

\* What the data source gives for the symbols: a stock whose info may be
\* unavailable, and a fund.
Sources ==
    {[AAPL |-> [info |-> i, hist |-> h],
      SPY |-> [info |-> Some([quoteType |-> "ETF",
                              longName |-> "SPDR S&P 500 ETF Trust"]),
               hist |-> None]] :
        i \in {None, Some([quoteType |-> "EQUITY", longName |-> "Apple Inc.",
                            sector |-> Some("Technology"),
                            country |-> Some("United States")])},
        h \in Histories}

EnrichCalls ==
    {[fn |-> "enrich_holdings_batch", args |-> <<h, s>>] :
        h \in HoldingLists([symbol : {"AAPL", "SPY"},
                            portfolio_percentage : {Some(100), Some(40)}],
                           MaxHoldings),
        s \in Sources}

-----------------------------------------------------------------------------
(* The functions of the handlers, each called on its own *)

\* The variables of the pipeline.
pipeline == <<events, s3, pending, dpc, dresp, attempts, tresp, cpc, clocal,
              cout, puts, access, faults>>

\* Largest number of keys of a mapping passed to a function.
MaxKeys == 3

SectorNames ==
    <<"Information Technology", "Energy", "Unknown", "Utilities", "Materials">>

Weights == {0, 1, 3}

\* The mappings of up to MaxKeys of the names, from the one after `skip`, to
\* weights.
MappingsOver(names, skip) ==
    UNION {{[i \in 1..n |-> <<names[skip + i], w[i]>>] : w \in [1..n -> Weights]} :
           n \in 0..MaxKeys}

Mappings == MappingsOver(SectorNames, 0)

\* Holdings as location.py reads them.
LocationHoldings ==
    [portfolio_percentage : {None, Some(0), Some(30), Some(70)},
     country : {None, Some(" US ")},
     city : {None, Some("Austin")},
     state : {None, Some("TX")}]
      \cup [country : {None, Some(" US ")}, city : {None, Some("Austin")},
            state : {None, Some("TX")}]

NormalizeCalls ==
    {[fn |-> "normalize_sector_allocations", args |-> <<m>>] : m \in Mappings}

LocationCalls ==
    {[fn |-> "process_holdings_to_locations", args |-> <<h>>] :
        h \in HoldingLists(LocationHoldings, MaxHoldings)}

SimilarityCalls ==
    {[fn |-> "calculate_similarity", args |-> <<a, b>>] :
        a \in Mappings \cup {sp500_sectors},
        b \in Mappings \cup MappingsOver(SectorNames, 1)}

CosineCalls ==
    {[fn |-> "cosine_similarity", args |-> <<a, b>>] :
        a \in MappingsOver(caps, 0) \cup MappingsOver(caps, 1),
        b \in MappingsOver(caps, 0) \cup {global_market}}

\* The 'market-cap' values of the holdings: None or a string.
MarketCapInputs ==
    {None} \cup
    {Some(s) : s \in {"5T", "250B", "200B", "200.1B", "0.2T", "10B", "9.99B",
                       "2B", "1.99B", "300M", "299.9M", "50M", "49.9M", "0.05B",
                       "45000000", "12", "0", "", "-5B", "N/A", "1,500M",
                       " 3b ", "1.5.2B", "B", ".5T", "+2b", "5 M", "2t"}}

ParseCalls ==
    {[fn |-> "parse_market_cap", args |-> <<s>>] : s \in MarketCapInputs}

\* Holdings as the loop of size.py reads them.
CapHoldings == [symbol : {"A"}, market_cap : MarketCapInputs]

CapCountsCalls ==
    {[fn |-> "cap_counts", args |-> <<h>>] :
        h \in HoldingLists(CapHoldings, MaxHoldings)}

\* Holdings as sector.py reads them: with a sector, with a null, without
\* the key.
SectorHoldings ==
    [symbol : {"A"}, portfolio_percentage : {Some(0 - 20), Some(0), Some(40)},
     sector : {None, Some("Energy"), Some("Unknown")}]
      \cup [symbol : {"A"},
            portfolio_percentage : {Some(0 - 20), Some(0), Some(40)}]

SectorCalls ==
    {[fn |-> "process_holdings_to_sectors", args |-> <<h>>] :
        h \in HoldingLists(SectorHoldings, MaxHoldings)}

\* Holdings as size.py reads them, with the weight the size view leaves out.
SizeHoldings ==
    [symbol : {"A"},
     market_cap : {None, Some("5T"), Some("200B"), Some("1.99B")},
     total_gain_percent : {Some(5)},
     value : {Some(100), Some(900)},
     portfolio_percentage : {Some(10), Some(60)}]

SizeCalls ==
    {[fn |-> "size_result", args |-> <<h>>] :
        h \in HoldingLists(SizeHoldings, MaxHoldings)}

\* Portfolios as the dispatcher reads them: up to MaxHoldings of the
\* holdings of the uploads, in any order.
Portfolios ==
    {[holdings |-> h] :
        h \in HoldingLists(UNION {{Uploads[k].holdings[i] :
                                      i \in 1..Len(Uploads[k].holdings)} :
                                  k \in DOMAIN Uploads},
                           MaxHoldings)}

PrepareCalls ==
    {[fn |-> "prepare", args |-> <<f, p>>] :
        f \in DimensionFunctions, p \in Portfolios}

Calls ==
    NormalizeCalls \cup LocationCalls \cup SimilarityCalls \cup CosineCalls
        \cup ParseCalls \cup CapCountsCalls \cup SizeCalls \cup SectorCalls
        \cup PrepareCalls \cup EnrichCalls

InitCalc ==
    \E c \in Calls :
        /\ events = {}
        /\ s3 = [k \in {} |-> None]
        /\ pending = {}
        /\ dpc = [k \in SourceKeys |-> 0]
        /\ dresp = [k \in SourceKeys |-> 0]
        /\ attempts = [k \in SourceKeys |-> <<>>]
        /\ tresp = {}
        /\ cpc = [id \in Identifiers |-> "idle"]
        /\ clocal = [id \in Identifiers |-> NoLocals]
        /\ cout = [id \in Identifiers |-> NoOutcome]
        /\ puts = [k \in {} |-> 0]
        /\ access = {}
        /\ faults = 0
        /\ call = c
        /\ retval = None
        /\ fetch = NoFetch

\* The call returns a value.
Return(value) ==
    /\ retval = None
    /\ retval' = Some(value)
    /\ UNCHANGED <<call, fetch, pipeline>>

CallNormalize ==
    /\ call.fn = "normalize_sector_allocations"
    /\ Return(normalize_sector_allocations(call.args[1]))

CallLocations ==
    /\ call.fn = "process_holdings_to_locations"
    /\ Return(process_holdings_to_locations(call.args[1]))

CallSimilarity ==
    /\ call.fn = "calculate_similarity"
    /\ Return(calculate_similarity(call.args[1], call.args[2]))

CallCosine ==
    /\ call.fn = "cosine_similarity"
    /\ Return(cosine_similarity(Floats(call.args[1]), Floats(call.args[2])))

CallParse ==
    /\ call.fn = "parse_market_cap"
    /\ Return(parse_market_cap(call.args[1]))

CallCapCounts ==
    /\ call.fn = "cap_counts"
    /\ Return(CapCounts(call.args[1], NoCounts))

CallSize ==
    /\ call.fn = "size_result"
    /\ Return(size_result(call.args[1]))

CallSectors ==
    /\ call.fn = "process_holdings_to_sectors"
    /\ Return(process_holdings_to_sectors(call.args[1]))

\* bias-router.py lambda_handler, lines 149-165: the payload of a dimension
CallPrepare ==
    /\ call.fn = "prepare"
    /\ Return(PrepareFor(call.args[1], call.args[2]))

CallEnrich ==
    /\ call.fn = "enrich_holdings_batch"
    /\ Return(enrich_holdings_batch(call.args[1], call.args[2]))

NextCalc ==
    \/ CallEnrich
    \/ CallPrepare
    \/ CallNormalize
    \/ CallLocations
    \/ CallSimilarity
    \/ CallCosine
    \/ CallParse
    \/ CallCapCounts
    \/ CallSize
    \/ CallSectors

SpecCalc == InitCalc /\ [][NextCalc]_vars

-----------------------------------------------------------------------------
(* vercel-api-call/portfolio-yfinance-data.py: the fetches with retries *)

\* The default of max_retries in get_ticker_info and
\* get_historical_data_single.
max_retries == 2

\* The indices 0..n of a loop that runs once too often.
range_inclusive(n) == 0..n

\* range(n)
range(n) == 0..(n - 1)

\* A test of the phrases on the message as it is spelt.
NonRetryable_cased(error_msg) ==
    \E phrase \in {"delisted", "not found", "invalid", "timezone"} :
        Contains(error_msg, phrase)

\* lines 199 and 268: any(phrase in error_msg.lower() for phrase in [...])
NonRetryable(error_msg) ==
    Bind(LowerFrom(error_msg, 1), LAMBDA lowered :
        \E phrase \in {"delisted", "not found", "invalid", "timezone"} :
            Contains(lowered, phrase))

\* Messages of the exceptions the data source raises.
ErrorMessages ==
    { "possibly delisted; no price data found", "Invalid ticker",
      "429 Too Many Requests: quote not found", "429 Too Many Requests",
      "Connection reset by peer" }

\* What a request to the data source gives: an exception, or ticker.info
\* as the number of its keys (None for no dict at all).
TickerResponses ==
    {[error |-> Some(m), info |-> None] : m \in ErrorMessages}
      \cup {[error |-> None, info |-> i] : i \in {None, Some(0), Some(1), Some(5)}}

\* An exception, or ticker.history() as the number of its rows (None for no
\* frame at all).
HistoryResponses ==
    {[error |-> Some(m), hist |-> None] : m \in ErrorMessages}
      \cup {[error |-> None, hist |-> h] : h \in {None, Some(0), Some(40)}}

\* get_ticker_info, lines 180-212: one iteration of the loop.  A message
\* with a phrase that is not retryable returns (None, None); an empty
\* response and every other exception go on to the next iteration (the
\* tests of lines 204-211 choose how long to sleep before it).
TickerAttempt ==
    /\ call.fn = "get_ticker_info"
    /\ retval = None
    /\ fetch.attempt \in range(max_retries)
    /\ \E response \in TickerResponses :
          /\ fetch' = [attempt |-> fetch.attempt + 1,
                       requests |-> fetch.requests + 1,
                       error |-> response.error]
          /\ retval' =
                IF response.error # None
                THEN (IF NonRetryable(response.error[1]) THEN Some(<<None, None>>)
                      ELSE None)
                ELSE IF response.info # None /\ response.info[1] > 1
                THEN Some(<<Some(call.args[1]), response.info>>)
                ELSE None
    /\ UNCHANGED <<call, pipeline>>

\* lines 214-215: the loop is over
TickerExhausted ==
    /\ call.fn = "get_ticker_info"
    /\ retval = None
    /\ fetch.attempt \notin range(max_retries)
    /\ retval' = Some(<<None, None>>)
    /\ UNCHANGED <<call, fetch, pipeline>>

Leap(year) == year % 4 = 0 /\ (year % 100 # 0 \/ year % 400 = 0)

DaysIn(year, month) ==
    IF month = 2 THEN (IF Leap(year) THEN 29 ELSE 28)
    ELSE IF month \in {4, 6, 9, 11} THEN 30 ELSE 31

\* lines 224-228: end_date.replace(...) raises ValueError when the day of
\* end_date does not exist in the month two months before
StartDateRaises(end_date) ==
    IF end_date.month <= 2
    THEN end_date.day > DaysIn(end_date.year - 1, end_date.month + 10)
    ELSE end_date.day > DaysIn(end_date.year, end_date.month - 2)

\* The value an iteration returns for a frame: the frame if it has rows.
Got(requests, hist) ==
    [requests |-> requests, raised |-> None,
     returned |-> Some(IF hist # None /\ hist[1] > 0 THEN hist ELSE None)]

\* get_historical_data_single, lines 219-262: the body of the try of one
\* iteration, on the answers to its three requests (two months of days, the
\* range of dates, two months of weeks).  A later request is made when the
\* one before raised; when all three raise, the first exception is raised.
history_try(end_date, period, dates, weekly) ==
    IF StartDateRaises(end_date)
    THEN [requests |-> 0, raised |-> Some("day is out of range for month"),
          returned |-> None]
    ELSE IF period.error = None THEN Got(1, period.hist)
    ELSE IF dates.error = None THEN Got(2, dates.hist)
    ELSE IF weekly.error = None THEN Got(3, weekly.hist)
    ELSE [requests |-> 3, raised |-> period.error, returned |-> None]

\* get_historical_data_single, lines 218-280: one iteration of the loop
HistoryAttempt ==
    /\ call.fn = "get_historical_data_single"
    /\ retval = None
    /\ fetch.attempt \in range(max_retries)
    /\ \E period \in HistoryResponses, dates \in HistoryResponses,
          weekly \in HistoryResponses :
          \E out \in {history_try(call.args[2], period, dates, weekly)} :
             /\ fetch' = [attempt |-> fetch.attempt + 1,
                          requests |-> fetch.requests + out.requests,
                          error |-> out.raised]
             /\ retval' =
                   IF out.raised = None THEN out.returned
                   ELSE IF NonRetryable(out.raised[1]) THEN Some(None)
                   ELSE None
    /\ UNCHANGED <<call, pipeline>>

\* lines 282-283: the loop is over
HistoryExhausted ==
    /\ call.fn = "get_historical_data_single"
    /\ retval = None
    /\ fetch.attempt \notin range(max_retries)
    /\ retval' = Some(None)
    /\ UNCHANGED <<call, fetch, pipeline>>

Symbols == {"AAPL", "XYZ"}

\* datetime.now() of a call: days whose month two months before is shorter,
\* and days for which it is not.
Dates ==
    { [year |-> 2025, month |-> 1, day |-> 31],
      [year |-> 2025, month |-> 4, day |-> 29],
      [year |-> 2024, month |-> 4, day |-> 29],
      [year |-> 2025, month |-> 6, day |-> 15] }

\* The calls of the two functions; the second argument of
\* get_historical_data_single is the date it reads from the clock.
FetchCalls ==
    {[fn |-> "get_ticker_info", args |-> <<s>>] : s \in Symbols}
      \cup {[fn |-> "get_historical_data_single", args |-> <<s, d>>] :
               s \in Symbols, d \in Dates}

InitFetch ==
    \E c \in FetchCalls :
        /\ events = {}
        /\ s3 = [k \in {} |-> None]
        /\ pending = {}
        /\ dpc = [k \in SourceKeys |-> 0]
        /\ dresp = [k \in SourceKeys |-> 0]
        /\ attempts = [k \in SourceKeys |-> <<>>]
        /\ tresp = {}
        /\ cpc = [id \in Identifiers |-> "idle"]
        /\ clocal = [id \in Identifiers |-> NoLocals]
        /\ cout = [id \in Identifiers |-> NoOutcome]
        /\ puts = [k \in {} |-> 0]
        /\ access = {}
        /\ faults = 0
        /\ call = c
        /\ retval = None
        /\ fetch = NoFetch

NextFetch ==
    \/ TickerAttempt
    \/ TickerExhausted
    \/ HistoryAttempt
    \/ HistoryExhausted

SpecFetch == InitFetch /\ [][NextFetch]_vars

\* The interpreter goes on with the loop as long as it has a step to take:
\* every request to the data source is answered or raises.
SpecFetchFair == SpecFetch /\ WF_vars(NextFetch)

-----------------------------------------------------------------------------
(* Vocabulary of the properties *)

Dimensions == <<"location", "momentum", "sector", "size", "volatility">>

\* The function that computes a dimension.
FunctionOf(dimension) == "portfolio-" \o dimension \o "-analysis"

\* The five file names the combiner requires.
RequiredSet == {Dimensions[i] \o "_results.json" : i \in 1..5}

\* The namespace of an identifier in the results bucket, and its keys.
NamespaceOf(id) == "results/" \o id \o "/"

ResultKeyOf(id, dimension) == NamespaceOf(id) \o dimension \o "_results.json"

CombinedKeyOf(id) == id \o "_combined_results.json"

\* The required files stored under the identifier's namespace right now.
Present(id) == {f \in RequiredSet : (NamespaceOf(id) \o f) \in DOMAIN s3}

\* A step of the combiner run for the identifier.
CombinerStep(id) == cpc'[id] # cpc[id] \/ clocal'[id] # clocal[id]

\* The step on which a combiner run settles whether the results are complete:
\* the second listing, or a first listing that finds nothing.
DecideStep(id) ==
    \/ cpc[id] = "list2" /\ cpc'[id] # "list2"
    \/ cpc[id] = "idle" /\ cpc'[id] = "done"

\* The step that ends a combiner run.
FinishStep(id) == cpc[id] # "done" /\ cpc'[id] = "done"

Range(seq) == {seq[i] : i \in 1..Len(seq)}

\* The notification that carries an identifier.
SubmissionOf(id) ==
    CHOOSE k \in DOMAIN Uploads : Identifier(k) = id

\* The document a dimension handler computes for a submission when nothing fails.
ExpectedDoc(id, dimension) ==
    Handle([fn |-> FunctionOf(dimension),
            uniqueIdentifier |-> Some(id),
            data |-> Some(PrepareFor(FunctionOf(dimension), Uploads[SubmissionOf(id)]))],
           "none").put[1].body

-----------------------------------------------------------------------------
(* C1 *)

\* C1: a combined result for an identifier exists only if it was written by
\* that identifier's combiner run, the listing of that run contained all five
\* required files, and all five per-dimension results have been written.
C1_CombinedOnlyWhenComplete ==
    \A id \in Identifiers :
        /\ CombinedKeyOf(id) \in DOMAIN s3 =>
              /\ cout[id].status = "returned"
              /\ RequiredSet \subseteq clocal[id].found
              /\ \A i \in 1..5 : ResultKeyOf(id, Dimensions[i]) \in DOMAIN puts
        /\ \A c \in access :
              c.op = "put" /\ c.key = CombinedKeyOf(id) =>
                  /\ c.who = <<"result_compiler", id>>
                  /\ RequiredSet \subseteq clocal[id].found

C1_Witness ==
    \E id \in Identifiers :
        CombinedKeyOf(id) \in DOMAIN s3 /\ Present(id) = RequiredSet

-----------------------------------------------------------------------------
(* C2 *)

-----------------------------------------------------------------------------
(* C3 *)

\* C3: once all five per-dimension results of a submission are written, its
\* combined result is eventually written.
C3_EventuallyCombined ==
    \A id \in Identifiers :
        (Present(id) = RequiredSet) ~> (CombinedKeyOf(id) \in DOMAIN s3)

-----------------------------------------------------------------------------
(* C4 *)

\* C4: in a dispatcher run the combiner is invoked only after the invocation
\* of each of the five dimension functions has been attempted, and at most once.
C4_CombinerInvokedLast ==
    \A k \in SourceKeys :
        \A i \in 1..Len(attempts[k]) :
            attempts[k][i] = "result_compiler" =>
                /\ \A fn \in { "portfolio-volatility-analysis",
                               "portfolio-sector-analysis",
                               "portfolio-size-analysis",
                               "portfolio-location-analysis",
                               "portfolio-momentum-analysis" } :
                       \E j \in 1..(i - 1) : attempts[k][j] = fn
                /\ \A j \in 1..Len(attempts[k]) :
                       attempts[k][j] = "result_compiler" => j = i

\* The combiner was invoked although a dimension invocation had failed.
C4_Witness ==
    \E k \in SourceKeys :
        /\ "result_compiler" \in Range(attempts[k])
        /\ dresp[k] = 200
        /\ faults > 0
        /\ \E fn \in DimensionFunctions :
               /\ \A e \in pending : e.fn # fn
               /\ \A r \in tresp : r.fn # fn

-----------------------------------------------------------------------------
(* C5 *)

\* The combined document of a submission: the five expected documents in
\* the order of the required files.
ExpectedCombined(id) ==
    [i \in 1..5 |-> <<Dimensions[i] \o "_results", ExpectedDoc(id, Dimensions[i])>>]

-----------------------------------------------------------------------------
(* C6 *)

\* C6 as stated: on success the combined document has exactly five entries
\* keyed by the dimension names, each holding the stored document of its
\* dimension.
C6_AsStated ==
    \A id \in Identifiers :
        cout[id].status = "returned" =>
            /\ CombinedKeyOf(id) \in DOMAIN s3
            /\ Len(s3[CombinedKeyOf(id)]) = 5
            /\ \A i \in 1..5 :
                  /\ s3[CombinedKeyOf(id)][i][1] = Dimensions[i]
                  /\ s3[CombinedKeyOf(id)][i][2] = s3[ResultKeyOf(id, Dimensions[i])]

\* C6, amended: on success the combined document, stored under
\* {id}_combined_results.json, has exactly five entries keyed by the file
\* names without ".json" (location_results, momentum_results, sector_results,
\* size_results, volatility_results), each holding the stored document of
\* its dimension.
C6_CombinedDocument ==
    \A id \in Identifiers :
        cout[id].status = "returned" =>
            /\ CombinedKeyOf(id) \in DOMAIN s3
            /\ Len(s3[CombinedKeyOf(id)]) = 5
            /\ \A i \in 1..5 :
                  /\ s3[CombinedKeyOf(id)][i][1] = Dimensions[i] \o "_results"
                  /\ s3[CombinedKeyOf(id)][i][2] = s3[ResultKeyOf(id, Dimensions[i])]

C6_Witness ==
    \E id \in Identifiers :
        /\ cout[id].status = "returned"
        /\ "sector_results" \in DictKeys(s3[CombinedKeyOf(id)])

-----------------------------------------------------------------------------
(* C7 *)

\* C7: two different tasks never write the same key, each dimension task
\* writes the key of its own dimension and identifier; no call made for an
\* identifier P (a write, a read, a listing) touches the namespace or the
\* combined result of another identifier Q; and every entry of P's combined
\* result is the document computed from P's own submission.
C7_DisjointNamespaces ==
    /\ \A c \in access : \A d \in access :
          c.op = "put" /\ d.op = "put" /\ c.who # d.who => c.key # d.key
    /\ \A c \in access : \A i \in 1..5 :
          c.op = "put" /\ c.who[1] = FunctionOf(Dimensions[i]) =>
              c.key = ResultKeyOf(c.who[2], Dimensions[i])
    /\ \A c \in access : \A q \in Identifiers :
          q # c.who[2] =>
              /\ ~StartsWith(c.key, NamespaceOf(q))
              /\ c.key # CombinedKeyOf(q)
              /\ c.op = "list" => ~StartsWith(NamespaceOf(q), c.key)
    /\ \A id \in Identifiers :
          CombinedKeyOf(id) \in DOMAIN s3 =>
              \A i \in 1..Len(s3[CombinedKeyOf(id)]) :
                  \E j \in 1..5 :
                      s3[CombinedKeyOf(id)][i][2] = ExpectedDoc(id, Dimensions[j])

\* Both concurrent submissions were combined.
C7_Witness ==
    /\ CombinedKeyOf("a") \in DOMAIN s3
    /\ CombinedKeyOf("ab") \in DOMAIN s3
    /\ ExpectedDoc("a", "momentum") # ExpectedDoc("ab", "momentum")

-----------------------------------------------------------------------------
(* C8 *)

\* C8: a per-dimension result that exists is still there, with the same
\* content and without a further write, after every step; no per-dimension
\* key is ever written more than once.
C8_ResultsWrittenOnce ==
    [][\A id \in Identifiers : \A i \in 1..5 :
          /\ ResultKeyOf(id, Dimensions[i]) \in DOMAIN s3 =>
                /\ ResultKeyOf(id, Dimensions[i]) \in DOMAIN s3'
                /\ s3'[ResultKeyOf(id, Dimensions[i])] = s3[ResultKeyOf(id, Dimensions[i])]
                /\ puts'[ResultKeyOf(id, Dimensions[i])] = puts[ResultKeyOf(id, Dimensions[i])]
          /\ ResultKeyOf(id, Dimensions[i]) \in DOMAIN puts' =>
                puts'[ResultKeyOf(id, Dimensions[i])] = 1]_vars

\* All five results written, and the dispatcher and the combiner have finished.
C8_Witness ==
    \E id \in Identifiers :
        /\ \A i \in 1..5 : ResultKeyOf(id, Dimensions[i]) \in DOMAIN puts
        /\ cpc[id] = "done"
        /\ pending = {}
        /\ \E k \in events : dpc[k] = Len(DispatchOrder) + 1

-----------------------------------------------------------------------------
(* C9 *)

\* C9: a step of the combiner run of P, successful or not, keeps every object
\* other than P_combined_results.json as it is and creates no object other
\* than P_combined_results.json.
C9_CombinerFrame ==
    [][\A id \in Identifiers :
          CombinerStep(id) =>
              /\ \A k \in DOMAIN s3 :
                    k # CombinedKeyOf(id) => k \in DOMAIN s3' /\ s3'[k] = s3[k]
              /\ \A k \in DOMAIN s3' :
                    k \notin DOMAIN s3 => k = CombinedKeyOf(id)]_vars

\* A combiner run that read all five results and failed to store.
C9_Witness ==
    \E id \in Identifiers :
        /\ cout[id].error = "NameError"
        /\ Present(id) = RequiredSet
        /\ Len(clocal[id].combined_data) = 5

-----------------------------------------------------------------------------
(* C10 *)

\* The runs of dimension tasks for an identifier that met a failure of the
\* commentary generation or of the storage write.
FailedRuns(id) ==
    {r \in tresp : r.fault # "none" /\ r.uniqueIdentifier = Some(id)}

\* The file a dimension function writes.
FileOf(fn) ==
    CHOOSE f \in RequiredSet : \E i \in 1..5 :
        fn = FunctionOf(Dimensions[i]) /\ f = Dimensions[i] \o "_results.json"

\* A failed task answered 500 and left nothing under its key.
FailedTaskLeavesNothing ==
    \A id \in Identifiers : \A r \in FailedRuns(id) :
        /\ r.statusCode = 500
        /\ (NamespaceOf(id) \o FileOf(r.fn)) \notin DOMAIN s3'

-----------------------------------------------------------------------------
(* C11 *)

\* An event without an identifier or without holdings.
Invalid(event) ==
    ~Truthy(event.uniqueIdentifier) \/ EventHoldings(event) = <<>>

\* C11: a dimension function invoked with a missing identifier or with no
\* holdings, on infrastructure that does not fail, answers with a validation
\* error (status 400) and stores nothing.
C11_ValidationError ==
    [][\A event \in pending :
          Invalid(event) /\ pending' = pending \ {event} /\ faults' = faults =>
              /\ \A r \in tresp' \ tresp : r.statusCode = 400
              /\ s3' = s3]_vars

-----------------------------------------------------------------------------
(* C12 *)

\* The dispatcher run for a notification attempted to invoke the function and
\* the invocation failed: no event reached the function.
InvocationFailed(k, fn) ==
    /\ fn \in Range(attempts[k])
    /\ \A e \in pending :
          ~(e.fn = fn /\ e.uniqueIdentifier = Some(Identifier(k)))
    /\ \A r \in tresp :
          ~(r.fn = fn /\ r.uniqueIdentifier = Some(Identifier(k)))

\* C12: a dispatcher run in which the invocation of a dimension function
\* failed ends with a failure response (status 500), not with a success.
C12_DispatchFailureReported ==
    \A k \in events :
        /\ dpc[k] = Len(DispatchOrder) + 1
        /\ \E fn \in DimensionFunctions : InvocationFailed(k, fn)
        => dresp[k] = 500

-----------------------------------------------------------------------------
(* C13 *)

\* The values of `out` sum to 100, are ordered as the weights of `in` are,
\* and sit under the keys of `in`.
NormalizedTo100(in, out) ==
    /\ FracEq(FracSum(DictValues(out)), Frac(100, 1))
    /\ DictKeys(out) = DictKeys(in)
    /\ Len(out) = Len(in)
    /\ \A i, j \in 1..Len(in) :
          /\ out[i][1] = in[i][1]
          /\ in[i][2] < in[j][2] <=> FracLess(out[i][2], out[j][2])

\* The statement without the condition on the total: every non-empty mapping
\* of non-negative weights is normalized to a sum of 100.
C13_AsStated ==
    /\ call.fn = "normalize_sector_allocations" /\ retval # None
           /\ call.args[1] # <<>>
        => NormalizedTo100(call.args[1], retval[1])
    /\ call.fn = "process_holdings_to_locations" /\ retval # None
           /\ LocationAccum(call.args[1], NoAllocations).allocations # <<>>
        => NormalizedTo100(LocationAccum(call.args[1], NoAllocations).allocations,
                           retval[1])

\* C13: for every mapping of non-negative weights whose total is positive,
\* the normalized values sum to 100 and keep the relative order of the
\* weights, and the key set is unchanged; this holds for the sector
\* normalizer and for the normalization of the location allocations.
C13_NormalizedTo100 ==
    /\ call.fn = "normalize_sector_allocations" /\ retval # None
           /\ SumSeq(DictValues(call.args[1])) > 0
        => NormalizedTo100(call.args[1], retval[1])
    /\ call.fn = "process_holdings_to_locations" /\ retval # None
           /\ LocationAccum(call.args[1], NoAllocations).total_percentage > 0
        => NormalizedTo100(LocationAccum(call.args[1], NoAllocations).allocations,
                           retval[1])

C13_Witness ==
    /\ call.fn = "normalize_sector_allocations"
    /\ call.args[1] = <<<<"Information Technology", 3>>, <<"Energy", 0>>,
                        <<"Unknown", 1>>>>
    /\ retval # None
    /\ retval[1][1][2] # Frac(3, 1)

-----------------------------------------------------------------------------
(* C14 *)

\* The value of a key in a distribution, 0 for a key it does not have.
WeightOf(d, k) == IF k \in DictKeys(d) THEN DictGet(d, k) ELSE 0

ZeroMagnitude(d) == \A k \in DictKeys(d) : WeightOf(d, k) = 0

\* No key has a weight other than 0 in both distributions.
DisjointNonZero(a, b) ==
    \A k \in DictKeys(a) \cup DictKeys(b) : WeightOf(a, k) = 0 \/ WeightOf(b, k) = 0

\* The distribution with a weight of 0 under each of the keys it lacks.
Completed(d, keys) ==
    d \o [i \in 1..Len(SelectSeq(keys, LAMBDA k : k \notin DictKeys(d))) |->
            <<SelectSeq(keys, LAMBDA k : k \notin DictKeys(d))[i], 0>>]

SimilarityCall == call.fn \in {"calculate_similarity", "cosine_similarity"}

\* C14: the similarity scorers (sector.py calculate_similarity, size.py
\* cosine_similarity) return 0.0, without raising an error, when either
\* distribution has zero magnitude or when no key has a non-zero weight in
\* both; a key missing from one distribution counts as 0: the result is the
\* one for the distributions completed with zeros over the union of the keys.
C14_ZeroSimilarity ==
    SimilarityCall /\ retval # None =>
        /\ ZeroMagnitude(call.args[1]) \/ ZeroMagnitude(call.args[2])
              \/ DisjointNonZero(call.args[1], call.args[2])
           => retval[1] = Zero
        /\ call.fn = "calculate_similarity" =>
              retval[1] = calculate_similarity(
                  Completed(call.args[1], KeyUnion(call.args[1], call.args[2])),
                  Completed(call.args[2], KeyUnion(call.args[1], call.args[2])))
        /\ call.fn = "cosine_similarity" =>
              retval[1] = cosine_similarity(
                  Floats(Completed(call.args[1], KeyUnion(call.args[1], call.args[2]))),
                  Floats(Completed(call.args[2], KeyUnion(call.args[1], call.args[2]))))

\* A call with a distribution of zero magnitude against one that is not, and
\* a call with non-zero weights under different keys only.
C14_Witness ==
    /\ SimilarityCall /\ retval = Some(Zero)
    /\ ~ZeroMagnitude(call.args[1]) /\ ~ZeroMagnitude(call.args[2])
    /\ DisjointNonZero(call.args[1], call.args[2])
    /\ DictKeys(call.args[1]) # DictKeys(call.args[2])

-----------------------------------------------------------------------------
(* C15 *)

\* The tier intervals: above 200e9 Mega-cap, [10e9, 200e9] Large-cap,
\* [2e9, 10e9) Mid-cap, [300e6, 2e9) Small-cap, [50e6, 300e6) Micro-cap,
\* anything else Nano-cap.
InTier(x, cap) ==
    CASE cap = "Mega-cap"  -> Compare(x, 2, 11) > 0
      [] cap = "Large-cap" -> Compare(x, 1, 10) >= 0 /\ Compare(x, 2, 11) <= 0
      [] cap = "Mid-cap"   -> Compare(x, 2, 9) >= 0 /\ Compare(x, 1, 10) < 0
      [] cap = "Small-cap" -> Compare(x, 3, 8) >= 0 /\ Compare(x, 2, 9) < 0
      [] cap = "Micro-cap" -> Compare(x, 5, 7) >= 0 /\ Compare(x, 3, 8) < 0
      [] OTHER             -> Compare(x, 5, 7) < 0

\* Values that are no number: absent, empty, or not a numeral.
Unparseable == {None, Some(""), Some("N/A"), Some("B"), Some("1.5.2B")}

\* C15: after the loop of the size handler over a list of holdings, each tier
\* counter holds the number of holdings whose parsed magnitude lies in the
\* interval of the tier (a holding increments exactly one counter), a
\* magnitude that is 0, negative or unparseable counts as Nano-cap, and the
\* counters sum to the number of holdings.
C15_TierCounters ==
    call.fn = "cap_counts" /\ retval # None =>
        /\ DictKeys(retval[1]) = {caps[i] : i \in 1..Len(caps)}
        /\ \A i \in 1..Len(caps) :
              DictGet(retval[1], caps[i]) =
                  Cardinality({h \in 1..Len(call.args[1]) :
                      InTier(parse_market_cap(call.args[1][h].market_cap), caps[i])})
        /\ DictGet(retval[1], "Nano-cap") >=
              Cardinality({h \in 1..Len(call.args[1]) :
                  \/ call.args[1][h].market_cap \in Unparseable
                  \/ parse_market_cap(call.args[1][h].market_cap).m <= 0})
        /\ SumSeq(DictValues(retval[1])) = Len(call.args[1])

C15_Witness ==
    /\ call.fn = "cap_counts"
    /\ Len(call.args[1]) = 2
    /\ call.args[1][1].market_cap = Some("200B")
    /\ call.args[1][2].market_cap = Some("N/A")
    /\ retval # None
    /\ DictGet(retval[1], "Large-cap") = 1
    /\ DictGet(retval[1], "Nano-cap") = 1

-----------------------------------------------------------------------------
(* C16 *)

\* The call counted the holdings of a list in which each market-cap string
\* is `first` or `second`.
CountedOnly(first, second) ==
    /\ call.fn = "cap_counts" /\ retval # None
    /\ call.args[1] # <<>>
    /\ \A h \in 1..Len(call.args[1]) :
          call.args[1][h].market_cap \in {Some(first), Some(second)}

\* The statement as it stands: "250B" counts as Large-cap, "5T" as Mega-cap.
C16_AsStated ==
    /\ CountedOnly("250B", "250B") =>
          DictGet(retval[1], "Large-cap") = Len(call.args[1])
    /\ CountedOnly("5T", "5T") =>
          DictGet(retval[1], "Mega-cap") = Len(call.args[1])

\* C16: a holding whose market-cap string is "250B" (250e9, above the
\* 200e9 boundary) is classified as Mega-cap, and so is one whose string is
\* "5T"; neither is classified as Large-cap.
C16_BothMegaCap ==
    CountedOnly("250B", "5T") =>
        /\ DictGet(retval[1], "Mega-cap") = Len(call.args[1])
        /\ DictGet(retval[1], "Large-cap") = 0

C16_Witness ==
    /\ CountedOnly("250B", "5T")
    /\ Len(call.args[1]) = 2
    /\ call.args[1][1].market_cap = Some("250B")
    /\ call.args[1][2].market_cap = Some("5T")
    /\ DictGet(retval[1], "Mega-cap") = 2

-----------------------------------------------------------------------------
(* C17 *)

\* The number of the holdings whose magnitude lies in the interval of a tier.
InTierCount(holdings, cap) ==
    Cardinality({h \in 1..Len(holdings) :
                    InTier(parse_market_cap(holdings[h].market_cap), cap)})

\* The holdings with one weight and one value for all.
Unweighted(holdings) ==
    [h \in 1..Len(holdings) |->
        [holdings[h] EXCEPT !.portfolio_percentage = Some(10), !.value = Some(100)]]

\* C17: in the size result the percentage of a tier is the number of
\* holdings in the tier over the number of holdings, times 100 (rounded to
\* two decimals), whatever the holdings' portfolio percentages and values;
\* for an empty list the six percentages are 0 and the similarity is 0.0.
C17_CountPercentages ==
    call.fn = "size_result" /\ retval # None =>
        /\ \A i \in 1..Len(caps) :
              /\ retval[1].market_cap[i][1] = caps[i]
              /\ FracEq(retval[1].market_cap[i][2],
                        IF call.args[1] = <<>> THEN Frac(0, 1)
                        ELSE Frac(RoundDiv(InTierCount(call.args[1], caps[i]) * 10000,
                                           Len(call.args[1])), 100))
        /\ retval[1].market_cap = size_result(Unweighted(call.args[1])).market_cap
        /\ retval[1].similarity_percentage =
              size_result(Unweighted(call.args[1])).similarity_percentage
        /\ call.args[1] = <<>> => retval[1].similarity_percentage = Zero

\* Two holdings of different weight and value in different tiers: half each.
C17_Witness ==
    /\ call.fn = "size_result" /\ retval # None
    /\ Len(call.args[1]) = 2
    /\ call.args[1][1].portfolio_percentage = Some(60)
    /\ call.args[1][2].portfolio_percentage = Some(10)
    /\ call.args[1][1].value # call.args[1][2].value
    /\ call.args[1][1].market_cap = Some("5T")
    /\ call.args[1][2].market_cap = Some("1.99B")
    /\ retval[1].market_cap[1][2] = Frac(5000, 100)
    /\ retval[1].market_cap[4][2] = Frac(5000, 100)

-----------------------------------------------------------------------------
(* C18 *)

Positive(holding) == Percentage(holding)[1] > 0

\* C18: the sector aggregation skips every holding whose
\* portfolio_percentage is <= 0: the allocations, and with them the total
\* the normalization divides by, are those of the holdings of positive
\* weight alone.
C18_SkipsNonPositive ==
    call.fn = "process_holdings_to_sectors" /\ retval # None =>
        /\ retval[1] = process_holdings_to_sectors(SelectSeq(call.args[1], Positive))
        /\ SumSeq(DictValues(retval[1])) =
              SumSeq(MapSeq(SelectSeq(call.args[1], Positive),
                            LAMBDA h : Percentage(h)[1]))

-----------------------------------------------------------------------------
(* C19 *)

\* The keys of the sector allocations and of the asset-type counts stored
\* in the bucket.
StoredBuckets ==
    UNION {IF "user_sectors" \in DOMAIN s3[k] THEN DictKeys(s3[k].user_sectors)
           ELSE IF "asset_types" \in DOMAIN s3[k] THEN DOMAIN s3[k].asset_types
           ELSE {} : k \in DOMAIN s3}

\* C19: a holding that reaches the sector computation through the
\* dispatcher's sector view without a sector, or the volatility computation
\* without an asset type, is accumulated under "Unknown": no stored sector
\* allocation or asset-type count has a null key.
C19_UnknownBucket == None \notin StoredBuckets

-----------------------------------------------------------------------------
(* C20 *)

\* A holding the aggregator accumulates: positive weight, some location.
Accumulated(holding) ==
    /\ Percentage(holding) # None
    /\ Percentage(holding)[1] > 0
    /\ \/ Stripped(holding, "country") # ""
       \/ Stripped(holding, "city") # ""
       \/ Stripped(holding, "state") # ""

CountryOrUnknown(holding) ==
    IF Stripped(holding, "country") = "" THEN "Unknown"
    ELSE Stripped(holding, "country")

\* "{state}, {country}", else "{city}, {country}", else the country.
KeyAsStated(holding) ==
    IF Stripped(holding, "state") # ""
    THEN Stripped(holding, "state") \o ", " \o CountryOrUnknown(holding)
    ELSE IF Stripped(holding, "city") # ""
    THEN Stripped(holding, "city") \o ", " \o CountryOrUnknown(holding)
    ELSE CountryOrUnknown(holding)

\* C20: the keys of the location allocations are, for the holdings the
\* aggregator accumulates, "{state}, {country}" if the state is present,
\* else "{city}, {country}" if the city is present, else the country, with
\* "Unknown" for a missing country.
C20_LocationKey ==
    call.fn = "process_holdings_to_locations" /\ retval # None =>
        DictKeys(retval[1]) =
            {KeyAsStated(call.args[1][h]) :
                h \in {i \in 1..Len(call.args[1]) : Accumulated(call.args[1][i])}}

\* A state with a city and a country, and a city without a country.
C20_Witness ==
    /\ call.fn = "process_holdings_to_locations" /\ retval # None
    /\ Len(call.args[1]) = 2
    /\ call.args[1][1] = [portfolio_percentage |-> Some(30), country |-> Some(" US "),
                          city |-> Some("Austin"), state |-> Some("TX")]
    /\ call.args[1][2] = [portfolio_percentage |-> Some(70), country |-> None,
                          city |-> Some("Austin"), state |-> None]
    /\ DictKeys(retval[1]) = {"TX, US", "Austin, Unknown"}

-----------------------------------------------------------------------------
(* C21 *)

\* The weights of the accumulated holdings of a list, all of them or those
\* of one location.
KeptWeights(holdings, keep(_)) ==
    SumSeq(MapSeq(SelectSeq(holdings, LAMBDA h : Accumulated(h) /\ keep(h)),
                  LAMBDA h : Percentage(h)[1]))

\* C21: the location aggregator skips the holdings whose weight is missing,
\* null or not positive and the holdings without country, city and state,
\* and goes on with the holdings that remain: a skipped holding adds to no
\* allocation and not to the total the shares are taken of; when a holding
\* is accumulated the shares sum to 100, when none is the result is empty.
C21_SkipsAndNormalizes ==
    call.fn = "process_holdings_to_locations" /\ retval # None =>
        /\ SelectSeq(call.args[1], Accumulated) = <<>> => retval[1] = <<>>
        /\ SelectSeq(call.args[1], Accumulated) # <<>> =>
              /\ FracEq(FracSum(DictValues(retval[1])), Frac(100, 1))
              /\ \A i \in 1..Len(retval[1]) :
                    FracEq(retval[1][i][2],
                           Frac(100 * KeptWeights(call.args[1],
                                    LAMBDA h : KeyAsStated(h) = retval[1][i][1]),
                                KeptWeights(call.args[1], LAMBDA h : TRUE)))

\* A holding of null weight before a holding that is accumulated.
C21_Witness ==
    /\ call.fn = "process_holdings_to_locations" /\ retval # None
    /\ Len(call.args[1]) = 2
    /\ call.args[1][1] = [portfolio_percentage |-> None, country |-> Some(" US "),
                          city |-> None, state |-> Some("TX")]
    /\ call.args[1][2] = [portfolio_percentage |-> Some(30), country |-> Some(" US "),
                          city |-> None, state |-> None]
    /\ retval[1] = << <<"US", Frac(3000, 30)>> >>

-----------------------------------------------------------------------------
(* C22 *)

\* The sum over the holdings of weight times metric (in 1/10000), a missing
\* or null weight or metric counting as 0.
WeightedSum(holdings, metric) ==
    SumSeq(MapSeq(holdings,
                  LAMBDA h : OrZero(Field(h, "portfolio_percentage"))
                               * OrZero(Field(h, metric))))

\* The result a run stores for a dimension under the identifier of its event.
StoredResult(event, dimension) ==
    s3'[ResultKeyOf(IdText(event.uniqueIdentifier), dimension)]

StoresResult(event, dimension) ==
    ResultKeyOf(IdText(event.uniqueIdentifier), dimension) \in DOMAIN s3'

\* A run of the handler on the event that meets no infrastructure failure.
Runs(event) == pending' = pending \ {event} /\ faults' = faults

\* C22: the weighted beta, the weighted Sharpe ratio and the weighted
\* momentum are the sums over the holdings of weight/100 times the metric,
\* where a holding whose metric or weight is absent or null contributes 0
\* and does not abort the computation.
C22_WeightedSums ==
    [][\A event \in pending : Runs(event) =>
          /\ event.fn = "portfolio-volatility-analysis" =>
                /\ StoresResult(event, "volatility")
                /\ StoredResult(event, "volatility").weighted_beta =
                      WeightedSum(EventHoldings(event), "beta")
                /\ StoredResult(event, "volatility").weighted_sharpe =
                      WeightedSum(EventHoldings(event), "sharpe")
          /\ event.fn = "portfolio-momentum-analysis" =>
                /\ StoresResult(event, "momentum")
                /\ StoredResult(event, "momentum").calculated_weighted_momentum =
                      WeightedSum(EventHoldings(event), "trailing_return_1m")]_vars

-----------------------------------------------------------------------------
(* C23 *)

\* ((w - 3.5) / 3.5) * 100 for a weighted return of w/10000 percent:
\* ((w - 35000) / 35000) * 100
ComparisonOf(w) == Frac(w - 35000, 350)

\* C23: the momentum handler stores its result for every list of holdings,
\* the empty one included; the comparison with the benchmark is null exactly
\* when the weighted return is 0, and ((weighted return - 3.5) / 3.5) * 100
\* otherwise.
C23_ComparisonNullAtZero ==
    [][\A event \in pending :
          Runs(event) /\ event.fn = "portfolio-momentum-analysis" =>
              /\ StoresResult(event, "momentum")
              /\ \A r \in tresp' \ tresp : r.statusCode = 200
              /\ StoredResult(event, "momentum").calculated_weighted_momentum = 0
                    <=> StoredResult(event, "momentum").price_momentum_comparison = None
              /\ StoredResult(event, "momentum").price_momentum_comparison # None =>
                    FracEq(StoredResult(event, "momentum").price_momentum_comparison[1],
                           ComparisonOf(StoredResult(event, "momentum")
                                            .calculated_weighted_momentum))]_vars

\* A stored result whose weighted return is -3.5: the comparison is -200.
C23_Witness ==
    /\ pending = {}
    /\ \E r \in tresp : r.fn = "portfolio-momentum-analysis" /\ r.statusCode = 200
    /\ ResultKeyOf("a", "momentum") \in DOMAIN s3
    /\ s3[ResultKeyOf("a", "momentum")].calculated_weighted_momentum = 0 - 35000
    /\ s3[ResultKeyOf("a", "momentum")].price_momentum_comparison # None
    /\ FracEq(s3[ResultKeyOf("a", "momentum")].price_momentum_comparison[1],
              Frac(0 - 200, 1))

-----------------------------------------------------------------------------
(* C24 *)

\* An event that carries the size view the dispatcher prepares of a portfolio.
SizeViewEvent(event) ==
    /\ event.fn = "portfolio-size-analysis"
    /\ \E k \in DOMAIN Uploads : event.data = Some(prepare_size_data(Uploads[k]))

\* C24: the size computation on the dispatcher's size view stores its result
\* whether or not a holding lacks total_gain_percent or market_cap: every
\* holding is counted in a tier, and top_holdings lists up to four holdings
\* in descending total_gain_percent, a missing one counting as 0.
C24_MissingFieldsTolerated ==
    [][\A event \in pending : Runs(event) /\ SizeViewEvent(event) =>
          /\ StoresResult(event, "size")
          /\ FracEq(FracSum(DictValues(StoredResult(event, "size").market_cap)),
                    Frac(100, 1))
          /\ Len(StoredResult(event, "size").top_holdings) =
                IF Len(EventHoldings(event)) < 4 THEN Len(EventHoldings(event)) ELSE 4
          /\ \A i \in 1..(Len(StoredResult(event, "size").top_holdings) - 1) :
                OrZero(StoredResult(event, "size").top_holdings[i].total_gain_percent)
                  >= OrZero(StoredResult(event, "size").top_holdings[i + 1]
                                .total_gain_percent)]_vars

-----------------------------------------------------------------------------
(* C25 *)

\* The holdings a view retains: all but the ETFs for sector, location and
\* momentum, all for size and volatility.
Retained(function, holdings) ==
    IF function \in {FunctionOf("sector"), FunctionOf("location"),
                     FunctionOf("momentum")}
    THEN SelectSeq(holdings, LAMBDA h : h.analysis.asset_type # Some("ETF"))
    ELSE holdings

\* The entry of a view is that of the holding: the same symbol, or the same
\* weight where the view has no symbol.
EntryOf(entry, holding) ==
    IF "symbol" \in DOMAIN entry THEN entry.symbol = holding.symbol
    ELSE entry.portfolio_percentage = holding.portfolio_percentage

\* C25: the views prepared for sector, location and momentum hold exactly
\* the holdings that are not ETFs, the views for size and volatility hold
\* every holding; each view has one entry per retained holding, in the
\* order of the input.
C25_ViewsRetain ==
    call.fn = "prepare" /\ retval # None =>
        /\ Len(retval[1].holdings) = Len(Retained(call.args[1], call.args[2].holdings))
        /\ \A i \in 1..Len(retval[1].holdings) :
              EntryOf(retval[1].holdings[i],
                      Retained(call.args[1], call.args[2].holdings)[i])

\* The location view of an ETF followed by a stock holds the stock alone.
C25_Witness ==
    /\ call.fn = "prepare" /\ retval # None
    /\ call.args[1] = FunctionOf("location")
    /\ Len(call.args[2].holdings) = 2
    /\ call.args[2].holdings[1].symbol = "SPY"
    /\ call.args[2].holdings[2].symbol = "XOM"
    /\ retval[1].holdings =
          << [portfolio_percentage |-> Some(20), country |-> Some("United States"),
              region |-> None] >>

-----------------------------------------------------------------------------
(* C26 *)

\* The entries of the location view the dispatcher sends for an identifier.
DispatchedLocations(id) ==
    prepare_location_data(Uploads[SubmissionOf(id)]).holdings

\* The names of the locations of a stored location result.
StoredLocations(id) ==
    {s3[ResultKeyOf(id, "location")].weighted_locations[i].location :
        i \in 1..Len(s3[ResultKeyOf(id, "location")].weighted_locations)}

\* C26: the location computation reads the view the dispatcher sends
\* (portfolio_percentage, country, region): a holding dispatched with region
\* R and country C is accumulated under "R, C", not under C alone.
C26_RegionInKey ==
    \A id \in Identifiers :
        ResultKeyOf(id, "location") \in DOMAIN s3 =>
            \A i \in 1..Len(DispatchedLocations(id)) :
                /\ Truthy(DispatchedLocations(id)[i].region)
                /\ Truthy(DispatchedLocations(id)[i].country)
                /\ DispatchedLocations(id)[i].portfolio_percentage[1] > 0
                => (DispatchedLocations(id)[i].region[1] \o ", "
                      \o DispatchedLocations(id)[i].country[1])
                        \in StoredLocations(id)

-----------------------------------------------------------------------------
(* C27 *)

\* A call of one of the two functions that fetch with retries.
Fetching == call.fn \in {"get_ticker_info", "get_historical_data_single"}

\* The value that stands for data that is not available.
Unavailable ==
    IF call.fn = "get_ticker_info" THEN <<None, None>> ELSE None

\* C27: get_ticker_info and get_historical_data_single make at most
\* max_retries (2) attempts for a symbol, whatever errors and empty
\* responses the data source gives (an attempt of get_ticker_info is one
\* request, an attempt of get_historical_data_single at most three); a call
\* whose attempts are used up returns the unavailable value, and every call
\* returns.
C27_BoundedAttempts ==
    /\ [](Fetching =>
            /\ fetch.attempt <= max_retries
            /\ fetch.requests <=
                  (IF call.fn = "get_ticker_info" THEN 1 ELSE 3) * fetch.attempt)
    /\ [][Fetching /\ fetch' = fetch /\ retval' # retval =>
            fetch.attempt = max_retries /\ retval' = Some(Unavailable)]_vars
    /\ (Fetching ~> retval # None)

\* Two attempts that fail with a transient error, then the unavailable
\* value.
C27_Witness ==
    /\ call.fn = "get_historical_data_single"
    /\ fetch.attempt = max_retries
    /\ fetch.requests = 6
    /\ fetch.error = Some("Connection reset by peer")
    /\ retval = Some(None)

-----------------------------------------------------------------------------
(* C28 *)

\* A message that holds one of the phrases of a failure that is not retried,
\* in any case of its letters.
Fatal(message) ==
    \E phrase \in {"delisted", "not found", "invalid", "timezone"} :
        Contains(LowerFrom(message, 1), phrase)

\* C28: an attempt that fails with a message containing delisted, not
\* found, invalid or timezone returns the unavailable value at once, also
\* when the message mentions rate limiting, and no attempt follows a
\* return; an attempt that fails with any other error returns nothing, and
\* another attempt follows it exactly when fewer than max_retries attempts
\* have been made.
C28_RetryOnlyTransient ==
    /\ [][Fetching /\ fetch'.attempt = fetch.attempt + 1 /\ fetch'.error # None =>
            IF Fatal(fetch'.error[1]) THEN retval' = Some(Unavailable)
            ELSE retval' = None]_vars
    /\ [][Fetching /\ retval # None => fetch' = fetch]_vars
    /\ [](Fetching /\ retval = None /\ fetch.error # None =>
            (ENABLED (TickerAttempt \/ HistoryAttempt)
                <=> fetch.attempt < max_retries))

\* A first attempt that is rate limited for a quote that is not found.
C28_Witness ==
    /\ call.fn = "get_ticker_info"
    /\ fetch.attempt = 1
    /\ fetch.error = Some("429 Too Many Requests: quote not found")
    /\ retval = Some(<<None, None>>)

-----------------------------------------------------------------------------
(* C29 *)

\* The calls that failed so far in a run of the dispatcher on its own.
Failures == faults - (MaxFaults - (Len(DispatchOrder) + 1))

\* A source key of at least three path segments.
ValidKey(k) == Len(Split(unquote_plus(k), "/")) >= 3

\* The dispatcher is through with the notification.
Dispatched(k) == dpc[k] = Len(DispatchOrder) + 1

\* C29: whichever of the dimension invocations fail, the dispatcher attempts
\* the invocation of each of the five dimension functions and of the
\* combiner exactly once; every invocation that did not fail is pending,
\* once, with the identifier of the portfolio.  A source key of fewer than
\* three path segments leads to no invocation at all.
C29_FailuresDoNotStopDispatch ==
    \A k \in events :
        Dispatched(k) =>
            IF ValidKey(k) /\ attempts[k] # <<>>
            THEN /\ attempts[k] = DispatchOrder
                 /\ \A event \in pending :
                       /\ event.uniqueIdentifier = Some(Identifier(k))
                       /\ Cardinality({e \in pending : e.fn = event.fn}) = 1
                 /\ Cardinality(pending) + Failures = Len(DispatchOrder)
            ELSE /\ attempts[k] = <<>>
                 /\ pending = {}
                 /\ dresp[k] = 500
                 /\ ValidKey(k) => Failures = 1

\* The invocations of volatility and location failed: the other three
\* dimensions and the combiner are pending.
C29_Witness ==
    /\ events = {"in/a/p.json"}
    /\ Dispatched("in/a/p.json")
    /\ dresp["in/a/p.json"] = 200
    /\ attempts["in/a/p.json"] = DispatchOrder
    /\ {e.fn : e \in pending} =
          {"portfolio-sector-analysis", "portfolio-size-analysis",
           "portfolio-momentum-analysis", "result_compiler"}

-----------------------------------------------------------------------------
(* C30 *)

\* The 1-month return the enrichment computed for a holding, 0 if none.
ReturnOf(holding) ==
    IF "price_momentum" \in DOMAIN holding.analysis
    THEN OrZero(holding.analysis.price_momentum.stock_return_1m)
    ELSE 0

\* The result the momentum computation stores for the view the dispatcher
\* prepares of a portfolio.
MomentumOf(holdings) ==
    momentum_lambda_handler(
        [fn |-> FunctionOf("momentum"), uniqueIdentifier |-> Some("a"),
         data |-> Some(prepare_momentum_data([holdings |-> holdings]))],
        "none").put[1].body

\* C30: for a portfolio that goes through the enrichment, the dispatcher
\* and the momentum computation, a holding that is no ETF, of weight p, for
\* which the enrichment computed the 1-month return r, contributes
\* p/100 * r to calculated_weighted_momentum; a single such holding with
\* r # 0 and p > 0 gives a weighted momentum that is not 0 and a comparison
\* that is not null.
C30_EnrichedReturnWeighs ==
    call.fn = "enrich_holdings_batch" /\ retval # None =>
        /\ MomentumOf(retval[1]).calculated_weighted_momentum =
              SumSeq(MapSeq(SelectSeq(retval[1], NotETF),
                            LAMBDA h : OrZero(h.portfolio_percentage) * ReturnOf(h)))
        /\ Len(retval[1]) = 1 /\ ReturnOf(retval[1][1]) # 0 =>
              /\ MomentumOf(retval[1]).calculated_weighted_momentum # 0
              /\ MomentumOf(retval[1]).price_momentum_comparison # None

====
